---- MODULE Spec2Model ----
(***************************************************************************)
(* Model of the real-estate underwriting engine: assumption derivation,   *)
(* the 10-year pro forma, the metrics library, the sensitivity tables and *)
(* the Monte Carlo layer.                                                  *)
(*                                                                         *)
(* Numbers.  The program computes in binary floating point.  The model    *)
(* computes in fixed point:                                                *)
(*   money              in mils (1/1000 of a dollar), so that the          *)
(*                      program's round(x, 2) is a real conversion;        *)
(*   rates, fractions   in basis points (1/10000);                         *)
(*   yearly_revenue_growth entries in tenths of a percent (the predictor   *)
(*                      returns percentages, the engine divides by 100).   *)
(* Every product of a money amount and a rate is floored to a mil, which   *)
(* stands for the rounding of the floating-point operation.                *)
(***************************************************************************)
EXTENDS Integers, Sequences, FiniteSets, TLC

VARIABLES
    deal,              \* the caller's DealInputs object
    derived,           \* DerivedAssumptions returned by derive_assumptions
    pro_forma,         \* result of the latest build_pro_forma
    first_pro_forma,   \* result of the first build_pro_forma
    sensitivity,       \* the tables of the latest sensitivity call
    monte_carlo,       \* result of the latest MonteCarloSimulator.run
    first_monte_carlo, \* result of the first MonteCarloSimulator.run
    simulator,         \* the MonteCarloSimulator object: n_iterations and seed
    np_random,         \* state of numpy's global random generator
    run,               \* the loop of a MonteCarloSimulator.run in a job thread
    trainer,           \* position of the thread generating training data
    alone,             \* result of the same run with no other thread
    rent_prediction,   \* what the rent predictor returned, or its error marker
    ml_valuation,      \* what the valuation model returned, or its error marker
    lease_analysis,    \* what the lease analyzer returned, or its error marker
    recommendation,    \* result of _build_recommendation
    jobs,              \* the dict `jobs` of app.py: job_id -> job
    threads,           \* position of each job's thread in _run_analysis
    response,          \* what the latest call of status() returned
    pc                 \* position of the caller

(* The optional signals of an analysis and the recommendation made from them *)
scorer_vars == <<rent_prediction, ml_valuation, lease_analysis, recommendation>>

vars == <<deal, derived, pro_forma, first_pro_forma, sensitivity, monte_carlo,
          first_monte_carlo, simulator, np_random, run, trainer, alone,
          rent_prediction, ml_valuation, lease_analysis, recommendation,
          jobs, threads, response, pc>>

(* The jobs of the web application, their threads and the latest status reply *)
job_vars == <<jobs, threads, response>>


----------------------------------------------------------------------------
(* Units *)

BPS == 100 * 100     \* one, as a rate in basis points
MIL == 10 * 100      \* one dollar in mils
CENT == MIL \div 100 \* one cent in mils
PPM == MIL * MIL     \* one, as a factor in millionths

(* Python's None and a present value *)
None == <<>>
Some(v) == <<v>>

Max(a, b) == IF a >= b THEN a ELSE b
Min(a, b) == IF a <= b THEN a ELSE b
Abs(a) == IF a < 0 THEN -a ELSE a

(* floor(a * b / c) for c > 0, without forming a * b *)
MulDiv(a, b, c) == (a \div c) * b + ((a % c) * b) \div c

(* x * rate for a rate in basis points *)
Frac(x, rate) == MulDiv(x, rate, BPS)

(* x * f for a factor f in millionths *)
Scale(x, f) == MulDiv(x, f, MIL) \div MIL

(* floor(a * 10^k / c), c > 0, by long division *)
RECURSIVE LongDigits(_, _, _, _)
LongDigits(q, r, c, k) ==
    IF k = 0 THEN q
    ELSE LongDigits(q * 10 + (r * 10) \div c, (r * 10) % c, c, k - 1)

(* a / c as a factor in millionths, and as a rate in basis points *)
DivPpm(a, c) == LongDigits(a \div c, a % c, c, 6)
DivBps(a, c) == IF c > 0 THEN LongDigits(a \div c, a % c, c, 4)
                ELSE LongDigits((-a) \div (-c), (-a) % (-c), -c, 4)

(* round(x, 2): to the nearest cent, ties to the even cent *)
round2(x) ==
    LET q == x \div CENT
        r == x % CENT
    IN  IF r * 2 > CENT \/ (r * 2 = CENT /\ q % 2 = 1)
        THEN (q + 1) * CENT
        ELSE q * CENT

----------------------------------------------------------------------------
(* models/assumptions.py *)

MultifamilyTypes == {"Multifamily - Class B", "Multifamily - Class A"}

(* "Multifamily" in d.asset_type *)
is_multifamily(property_type) == property_type \in MultifamilyTypes

(* The six splits of the remaining expense pool, in percent *)
(* A faulty ShareTax: property tax takes 30% of what remains, so the shares *)
(* add up to 95%                                                           *)
ShareTaxThirty(remaining) == MulDiv(remaining, 30, 100)
ShareTax(remaining) == MulDiv(remaining, 35, 100)
Share15(remaining) == MulDiv(remaining, 15, 100)
Share10(remaining) == MulDiv(remaining, 10, 100)

derive_assumptions(d) ==
    LET gross_potential_rent == d.in_place_rent * d.total_units * 12
        market_gpr == IF d.market_rent > 0
                      THEN d.market_rent * d.total_units * 12
                      ELSE gross_potential_rent
        other_income == IF is_multifamily(d.property_type)
                        THEN MulDiv(gross_potential_rent, 5, 100)
                        ELSE MulDiv(gross_potential_rent, 3, 100)
        effective_gross_income == Frac(gross_potential_rent, d.occupancy) + other_income
        total_operating_expenses == Max(0, effective_gross_income - d.current_noi)
        expense_ratio == IF effective_gross_income > 0
                         THEN DivBps(total_operating_expenses, effective_gross_income)
                         ELSE 4500
        mgmt == Frac(effective_gross_income, d.management_fee_pct)
        remaining == IF total_operating_expenses - mgmt < 0
                     THEN total_operating_expenses
                     ELSE total_operating_expenses - mgmt
        total_capex == d.deferred_maintenance + d.planned_capex
        closing == Frac(d.purchase_price, d.closing_costs_pct)
        total_project_cost == d.purchase_price + closing + total_capex
        loan_amount == Frac(d.purchase_price, d.ltv)
        going_in_cap_rate == IF d.purchase_price > 0
                             THEN DivBps(d.current_noi, d.purchase_price)
                             ELSE 0
    IN  [ gross_potential_rent     |-> gross_potential_rent,
          market_gpr               |-> market_gpr,
          vacancy_rate             |-> BPS - d.occupancy,
          effective_gross_income   |-> effective_gross_income,
          other_income             |-> other_income,
          rent_premium_potential   |-> IF d.market_rent > 0
                                       THEN d.market_rent - d.in_place_rent ELSE 0,
          total_operating_expenses |-> total_operating_expenses,
          expense_ratio            |-> expense_ratio,
          property_tax             |-> ShareTax(remaining),
          insurance                |-> Share15(remaining),
          utilities                |-> Share15(remaining),
          repairs_maintenance      |-> Share15(remaining),
          general_admin            |-> Share10(remaining),
          other_expenses           |-> Share10(remaining),
          total_capex              |-> total_capex,
          capex_per_unit           |-> IF d.total_units > 0
                                       THEN total_capex \div d.total_units ELSE 0,
          total_project_cost       |-> total_project_cost,
          loan_amount              |-> loan_amount,
          equity_required          |-> total_project_cost - loan_amount,
          going_in_cap_rate        |-> going_in_cap_rate,
          price_per_unit           |-> IF d.purchase_price > 0 /\ d.total_units > 0
                                       THEN d.purchase_price \div d.total_units ELSE 0,
          price_per_sf             |-> IF d.purchase_price > 0 /\ d.total_sf > 0
                                       THEN d.purchase_price \div d.total_sf ELSE 0,
          exit_cap_rate            |-> going_in_cap_rate + d.exit_cap_rate_spread ]

----------------------------------------------------------------------------
(* models/metrics.py *)

(* A value, or the exception the Python expression raises *)
Ok(v) == [ok |-> TRUE, v |-> v]
Raise == [ok |-> FALSE, v |-> 0]

(* a / b on floats: ZeroDivisionError when b = 0; the quotient in basis points *)
Quot(a, b) == IF b = 0 THEN Raise ELSE Ok(DivBps(a, b))

(* (1 + r)^n in millionths, r in millionths, one multiplication per period *)
RECURSIVE PowPpm(_, _, _)
PowPpm(g, r, n) ==
    IF n <= 0 \/ g < 0 THEN g
    ELSE PowPpm(g + Scale(g, r), r, n - 1)

RECURSIVE PowYears(_, _, _)
PowYears(g, r, years_left) ==
    IF years_left <= 0 \/ g < 0 THEN g
    ELSE PowYears(PowPpm(g, r, 12), r, years_left - 1)

(* annual_rate / 12, in millionths *)
monthly_rate(annual_rate) == (annual_rate * 100) \div 12

(* -npf.pmt(rate, nper, pv) = pv * rate * (1+rate)^nper / ((1+rate)^nper - 1) *)
npf_pmt(rate, amort_years, principal) ==
    LET g == PowYears(PPM, rate, amort_years)
        i0 == Scale(principal, rate)
    IN  i0 + DivPpm(i0, g - PPM)

calc_monthly_payment(principal, annual_rate, amort_years) ==
    IF principal = 0 \/ annual_rate = 0 THEN 0
    ELSE npf_pmt(monthly_rate(annual_rate), amort_years, principal)

(* sum(cash_flows[i - 1:]) *)
RECURSIVE sum_from(_, _)
sum_from(cash_flows, i) ==
    IF i > Len(cash_flows) THEN 0 ELSE cash_flows[i] + sum_from(cash_flows, i + 1)

calc_equity_multiple(cash_flows) ==
    LET invested == Abs(cash_flows[1])
        total_returned == sum_from(cash_flows, 2)
    IN  IF invested = 0 THEN Ok(0) ELSE Quot(total_returned, invested)

calc_cash_on_cash(annual_cf, equity_invested) ==
    IF equity_invested = 0 THEN Ok(0) ELSE Quot(annual_cf, equity_invested)

calc_dscr(noi, annual_debt_service) ==
    IF annual_debt_service = 0 THEN Ok(0) ELSE Quot(noi, annual_debt_service)

(* A faulty calc_yield_on_cost: the division without its zero guard *)
calc_yield_on_cost_unguarded(noi, total_cost) == Quot(noi, total_cost)
calc_yield_on_cost(noi, total_cost) ==
    IF total_cost = 0 THEN Ok(0) ELSE Quot(noi, total_cost)

(* One month of the schedule: the row appended and the balance carried on *)
schedule_month(balance, month, rate, pi_payment, io_payment, io_months) ==
    LET interest == Scale(balance, rate)
        principal_paid == IF month <= io_months THEN 0 ELSE pi_payment - interest
        payment == IF month <= io_months THEN io_payment ELSE pi_payment
        new_balance == balance - principal_paid
    IN  [ balance |-> new_balance,
          row |-> [ month     |-> month,
                    payment   |-> round2(payment),
                    principal |-> round2(principal_paid),
                    interest  |-> round2(interest),
                    balance   |-> round2(Max(new_balance, 0)) ] ]

(* Months first..last of the loop, in calendar years to keep the recursion flat *)
RECURSIVE schedule_months(_, _, _, _, _, _, _, _)
schedule_months(rows, balance, month, last, rate, pi_payment, io_payment, io_months) ==
    IF month > last \/ Len(rows) < 0 THEN [rows |-> rows, balance |-> balance]
    ELSE LET m == schedule_month(balance, month, rate, pi_payment, io_payment, io_months)
         IN  schedule_months(Append(rows, m.row), m.balance, month + 1, last,
                             rate, pi_payment, io_payment, io_months)

RECURSIVE schedule_years(_, _, _, _, _, _, _)
schedule_years(acc, year, term_years, rate, pi_payment, io_payment, io_months) ==
    IF year > term_years \/ Len(acc.rows) < 0 THEN acc.rows
    ELSE schedule_years(
             schedule_months(acc.rows, acc.balance, (year - 1) * 12 + 1, year * 12,
                             rate, pi_payment, io_payment, io_months),
             year + 1, term_years, rate, pi_payment, io_payment, io_months)

build_amortization_schedule(principal, annual_rate, amort_years, term_years, io_years) ==
    IF principal = 0 THEN <<>>
    ELSE schedule_years([rows |-> <<>>, balance |-> principal], 1, term_years,
                        monthly_rate(annual_rate),
                        calc_monthly_payment(principal, annual_rate, amort_years),
                        Scale(principal, monthly_rate(annual_rate)),
                        io_years * 12)

(* seq[i] with Python's 0-based index, negative indices counting from the end *)
PyAt(seq, i) ==
    IF 0 <= i /\ i < Len(seq) THEN Ok(seq[i + 1])
    ELSE IF i < 0 /\ -i <= Len(seq) THEN Ok(seq[Len(seq) + i + 1])
    ELSE Raise

(* seq[:k] *)
PyPrefix(seq, k) ==
    SubSeq(seq, 1, IF k >= 0 THEN Min(k, Len(seq)) ELSE Max(Len(seq) + k, 0))

(* The sign of the net present value of cash_flows at rate r (basis points, r > -1). *)
(* For r >= 0 it discounts from the last flow backwards; for r < 0 it compounds    *)
(* from the first flow forwards, so no intermediate exceeds the sum of the flows.  *)
RECURSIVE npv_back(_, _, _, _)
npv_back(cash_flows, r, i, acc) ==
    IF i = 0 \/ acc = acc + 1 THEN acc
    ELSE npv_back(cash_flows, r, i - 1, cash_flows[i] + MulDiv(acc, BPS, BPS + r))

RECURSIVE npv_fwd(_, _, _, _)
npv_fwd(cash_flows, r, i, acc) ==
    IF i > Len(cash_flows) \/ acc = acc + 1 THEN acc
    ELSE npv_fwd(cash_flows, r, i + 1, Frac(acc, BPS + r) + cash_flows[i])

Sign(x) == IF x > 0 THEN 1 ELSE IF x < 0 THEN -1 ELSE 0

npv_sign(cash_flows, r) ==
    IF r >= 0
    THEN Sign(npv_back(cash_flows, r, Len(cash_flows) - 1, cash_flows[Len(cash_flows)]))
    ELSE Sign(npv_fwd(cash_flows, r, 2, cash_flows[1]))

(* The rates at which the root finder brackets a root, and the order in which the *)
(* brackets are tried: npf.irr returns the real root closest to zero.              *)
IrrGrid == <<-9900, -5000, -2000, 0, 1000, 2000, 5000, 10000, 20000, 50000>>
IrrBracketOrder == <<4, 3, 5, 6, 2, 7, 1, 8, 9>>

RECURSIVE irr_bisect(_, _, _, _)
irr_bisect(cash_flows, lo, hi, slo) ==
    IF hi - lo <= 1 THEN lo
    ELSE LET mid == (lo + hi) \div 2
             smid == npv_sign(cash_flows, mid)
         IN  IF smid = 0 THEN mid
             ELSE IF smid = slo THEN irr_bisect(cash_flows, mid, hi, slo)
             ELSE irr_bisect(cash_flows, lo, mid, slo)

(* npf.irr: nan when the flows have one sign or no real root above -1 is found *)
npf_irr(cash_flows) ==
    LET n == Len(cash_flows)
        signs == [k \in 1..Len(IrrGrid) |-> npv_sign(cash_flows, IrrGrid[k])]
        brackets == {j \in 1..Len(IrrBracketOrder) :
                        signs[IrrBracketOrder[j]] # signs[IrrBracketOrder[j] + 1]}
    IN  IF n = 0 \/ (\A t \in 1..n : cash_flows[t] >= 0) \/ (\A t \in 1..n : cash_flows[t] <= 0)
        THEN None
        ELSE IF brackets # {}
        THEN LET j == CHOOSE j \in brackets : \A k \in brackets : j <= k
                 b == IrrBracketOrder[j]
             IN  IF signs[b] = 0 THEN Some(IrrGrid[b])
                 ELSE Some(irr_bisect(cash_flows, IrrGrid[b], IrrGrid[b + 1], signs[b]))
        ELSE IF signs[Len(IrrGrid)] # Sign(cash_flows[1])
        THEN Some(IrrGrid[Len(IrrGrid)])
        ELSE None

(* calc_irr: None for nan and for any exception *)
calc_irr(cash_flows) == npf_irr(cash_flows)


----------------------------------------------------------------------------
(* models/financial_model.py *)

years == 10

(* round(x, 0): to the nearest dollar, ties to the even dollar *)
round0(x) ==
    LET q == x \div MIL
        r == x % MIL
    IN  IF r * 2 > MIL \/ (r * 2 = MIL /\ q % 2 = 1)
        THEN (q + 1) * MIL
        ELSE q * MIL

(* yearly_growth[i] / 100: a percentage (in tenths of a percent) as a rate *)
pct_to_rate(p) == p * 10

(* _get_revenue_growth(yr_idx), yr_idx counted from 0 *)
(* A faulty get_revenue_growth: the rate is jittered from the global generator, *)
(* so the engine reads state that outlives the call                            *)
get_revenue_growth_jittered(d, yr_idx) ==
    Ok(d.revenue_growth_rate + (np_random % 100))
(* A faulty get_revenue_growth: the supplied list is ignored *)
get_revenue_growth_flat(d, yr_idx) == Ok(d.revenue_growth_rate)
get_revenue_growth(d, yr_idx) ==
    IF Len(d.yearly_revenue_growth) > 0 /\ yr_idx < Len(d.yearly_revenue_growth)
    THEN LET e == PyAt(d.yearly_revenue_growth, yr_idx)
         IN  IF e.ok THEN Ok(pct_to_rate(e.v)) ELSE Raise
    ELSE Ok(d.revenue_growth_rate)

(* rent_per_unit *= (1 + g) for y in range(lo, hi): the factor, in millionths *)
RECURSIVE compound_variable(_, _, _, _)
compound_variable(d, f, y, hi) ==
    IF y >= hi \/ ~f.ok THEN f
    ELSE LET g == get_revenue_growth(d, y)
         IN  compound_variable(d, IF g.ok THEN Ok(f.v + Frac(f.v, g.v)) ELSE Raise,
                               y + 1, hi)

(* (1 + rate) ** n, in millionths *)
RECURSIVE power(_, _, _)
power(f, rate, n) ==
    IF n <= 0 \/ f < 0 THEN f
    ELSE power(f + Frac(f, rate), rate, n - 1)

(* Straight-line annual depreciation of the building value *)
annual_depreciation(d) == (Frac(d.purchase_price, BPS - d.land_value_pct) * 10) \div 275

(* sum(m[field] for m in amort_schedule[first - 1:last]) *)
RECURSIVE sum_rows(_, _, _, _)
sum_rows(schedule, field, m, last) ==
    IF m > last THEN 0 ELSE schedule[m][field] + sum_rows(schedule, field, m + 1, last)

(* total_expenses of one year: the sum of its eight expense lines *)
(* A faulty sum_expenses: the replacement reserves are left out of the total *)
sum_expenses_without_reserves(mgmt_fee, prop_tax, insurance, utilities, repairs, ga, other_exp, reserves) ==
    mgmt_fee + prop_tax + insurance + utilities + repairs + ga + other_exp
sum_expenses(mgmt_fee, prop_tax, insurance, utilities, repairs, ga, other_exp, reserves) ==
    mgmt_fee + prop_tax + insurance + utilities + repairs + ga + other_exp + reserves

(* A faulty year_exp_growth: expenses compound at the revenue growth rate *)
year_exp_growth_at_revenue_rate(d, yr) == power(PPM, d.revenue_growth_rate, yr - 1)

(* "exp_growth = (1 + deal.expense_growth_rate) ** (yr - 1)", in millionths *)
year_exp_growth(d, yr) == power(PPM, d.expense_growth_rate, yr - 1)

(* A faulty year_occupancy: the occupancy improves over the rent ramp's years, *)
(* min(3, hold), not over two                                                  *)
year_occupancy_over_ramp(d, dv, yr) ==
    LET stabilized_occ == Min(9500, d.occupancy + 300)
        ramp_years == Max(1, Min(3, d.hold_period_years))
    IN  IF dv.total_capex > 0 /\ d.occupancy < 9500
        THEN IF yr <= ramp_years
             THEN d.occupancy + MulDiv(stabilized_occ - d.occupancy, yr, ramp_years)
             ELSE stabilized_occ
        ELSE d.occupancy

(* "Occupancy improvement toward 95% stabilized if capex is being done" *)
year_occupancy(d, dv, yr) ==
    LET stabilized_occ == Min(9500, d.occupancy + 300)
    IN  IF dv.total_capex > 0 /\ d.occupancy < 9500
        THEN IF yr <= 2
             THEN d.occupancy + MulDiv(stabilized_occ - d.occupancy, yr, 2)
             ELSE stabilized_occ
        ELSE d.occupancy

(* One pass of the loop "for yr in range(1, years + 1)": the unrounded values *)
pro_forma_year(d, dv, amort_schedule, annual_ds, yr) ==
    LET hold == d.hold_period_years
        in_place == d.in_place_rent
        market == IF d.market_rent > 0 THEN d.market_rent ELSE in_place
        rent_gap == market - in_place
        ramp_years == Min(3, hold)
        has_variable_growth == Len(d.yearly_revenue_growth) > 0
        growth == get_revenue_growth(d, yr - 1)
        rent_factor ==
            IF rent_gap > 0 /\ yr <= ramp_years THEN Ok(PPM)
            ELSE IF rent_gap > 0
            THEN IF has_variable_growth
                 THEN compound_variable(d, Ok(PPM), ramp_years, yr)
                 ELSE Ok(power(PPM, d.revenue_growth_rate, yr - ramp_years))
            ELSE IF has_variable_growth
                 THEN compound_variable(d, Ok(PPM), 0, yr - 1)
                 ELSE Ok(power(PPM, d.revenue_growth_rate, yr - 1))
        rent_per_unit ==
            IF rent_gap > 0 /\ yr <= ramp_years
            THEN in_place + MulDiv(rent_gap, yr, ramp_years)
            ELSE IF rent_gap > 0 THEN Scale(market, rent_factor.v)
            ELSE Scale(in_place, rent_factor.v)
        gpr == rent_per_unit * d.total_units * 12
        occ == year_occupancy(d, dv, yr)
        vacancy_loss == Frac(gpr, BPS - occ)
        exp_growth == year_exp_growth(d, yr)
        other_factor == IF has_variable_growth
                        THEN compound_variable(d, Ok(PPM), 0, yr - 1)
                        ELSE Ok(power(PPM, d.revenue_growth_rate, yr - 1))
        other_inc == Scale(dv.other_income, other_factor.v)
        egi == Frac(gpr, occ) + other_inc
        mgmt_fee == Frac(egi, d.management_fee_pct)
        prop_tax == Scale(dv.property_tax, exp_growth)
        insurance == Scale(dv.insurance, exp_growth)
        utilities == Scale(dv.utilities, exp_growth)
        repairs == Scale(dv.repairs_maintenance, exp_growth)
        ga == Scale(dv.general_admin, exp_growth)
        other_exp == Scale(dv.other_expenses, exp_growth)
        reserves == Scale(d.replacement_reserves_per_unit * d.total_units, exp_growth)
        total_expenses == sum_expenses(mgmt_fee, prop_tax, insurance, utilities, repairs,
                                       ga, other_exp, reserves)
        noi == egi - total_expenses
        yr_ds == IF yr <= d.io_period_years
                 THEN Frac(dv.loan_amount, d.interest_rate)
                 ELSE annual_ds
        btcf == noi - yr_ds
        yr_interest ==
            IF amort_schedule # <<>> /\ yr * 12 <= Len(amort_schedule)
            THEN sum_rows(amort_schedule, "interest", (yr - 1) * 12 + 1, yr * 12)
            ELSE IF yr <= d.io_period_years THEN yr_ds
            ELSE Frac(dv.loan_amount, d.interest_rate)
        taxable_income == noi - yr_interest - annual_depreciation(d)
        tax_liability == Max(0, Frac(taxable_income, d.tax_rate))
        atcf == btcf - tax_liability
    IN  [ ok |-> growth.ok /\ rent_factor.ok /\ other_factor.ok,
          noi |-> noi, btcf |-> btcf, atcf |-> atcf,
          row |-> [ year                   |-> yr,
                    rent_per_unit          |-> round0(rent_per_unit),
                    revenue_growth_used    |-> growth.v,
                    occupancy              |-> occ,
                    gross_potential_rent   |-> round2(gpr),
                    vacancy_loss           |-> round2(vacancy_loss),
                    other_income           |-> round2(other_inc),
                    effective_gross_income |-> round2(egi),
                    management_fee         |-> round2(mgmt_fee),
                    property_tax           |-> round2(prop_tax),
                    insurance              |-> round2(insurance),
                    utilities              |-> round2(utilities),
                    repairs_maintenance    |-> round2(repairs),
                    general_admin          |-> round2(ga),
                    other_expenses         |-> round2(other_exp),
                    replacement_reserves   |-> round2(reserves),
                    total_expenses         |-> round2(total_expenses),
                    noi                    |-> round2(noi),
                    debt_service           |-> round2(yr_ds),
                    btcf                   |-> round2(btcf),
                    interest_expense       |-> round2(yr_interest),
                    depreciation           |-> round2(annual_depreciation(d)),
                    taxable_income         |-> round2(taxable_income),
                    tax_liability          |-> round2(tax_liability),
                    atcf                   |-> round2(atcf) ] ]

(* The loop "for yr in range(1, years + 1)", appending one entry per year *)
RECURSIVE pro_forma_years(_, _, _, _, _, _)
pro_forma_years(acc, d, dv, amort_schedule, annual_ds, yr) ==
    IF yr > years \/ Len(acc) >= years THEN acc
    ELSE pro_forma_years(Append(acc, pro_forma_year(d, dv, amort_schedule, annual_ds, yr)),
                         d, dv, amort_schedule, annual_ds, yr + 1)

(* round(cf, 2) for cf in cfs *)
round2_all(cfs) == [i \in 1..Len(cfs) |-> round2(cfs[i])]

(* The annual amortization summary *)
annual_amort_row(amort_schedule, yr) ==
    [ year            |-> yr,
      total_payment   |-> sum_rows(amort_schedule, "payment", (yr - 1) * 12 + 1, yr * 12),
      total_principal |-> sum_rows(amort_schedule, "principal", (yr - 1) * 12 + 1, yr * 12),
      total_interest  |-> sum_rows(amort_schedule, "interest", (yr - 1) * 12 + 1, yr * 12),
      ending_balance  |-> amort_schedule[yr * 12].balance ]

(* What build_pro_forma returns when an exception leaves it *)
Raised == [raised |-> TRUE]

(* "Return Metrics" and the returned dict: the last lines of build_pro_forma *)
build_pro_forma_metrics(d, dv, annual_ds, amort_schedule, yr_values, annual_nois, annual_btcfs, annual_atcfs, sources_uses, reversion, levered_cfs, unlevered_cfs, levered_atcfs, ok_so_far) ==
    LET equity == dv.equity_required
        total_cost == dv.total_project_cost
        equity_mult == calc_equity_multiple(levered_cfs)
        after_tax_em == calc_equity_multiple(levered_atcfs)
        coc_yr1 == IF equity > 0 THEN calc_cash_on_cash(annual_btcfs[1], equity) ELSE Ok(0)
        coc_yr1_at == IF equity > 0 THEN calc_cash_on_cash(annual_atcfs[1], equity) ELSE Ok(0)
        dscr_yr1 == IF annual_ds > 0 THEN calc_dscr(annual_nois[1], annual_ds) ELSE Ok(0)
        yoc == calc_yield_on_cost(annual_nois[1], total_cost)
        stabilized_noi == annual_nois[Min(2, Len(annual_nois) - 1) + 1]
        stabilized_yoc == calc_yield_on_cost(stabilized_noi, total_cost)
        stabilized_dscr == IF annual_ds > 0 THEN calc_dscr(stabilized_noi, annual_ds)
                           ELSE Ok(0)
        metrics ==
            [ levered_irr                |-> calc_irr(levered_cfs),
              unlevered_irr              |-> calc_irr(unlevered_cfs),
              after_tax_irr              |-> calc_irr(levered_atcfs),
              equity_multiple            |-> equity_mult.v,
              after_tax_equity_multiple  |-> after_tax_em.v,
              cash_on_cash_yr1           |-> coc_yr1.v,
              cash_on_cash_yr1_after_tax |-> coc_yr1_at.v,
              dscr_yr1                   |-> dscr_yr1.v,
              yield_on_cost              |-> yoc.v,
              stabilized_yoc             |-> stabilized_yoc.v,
              stabilized_dscr            |-> stabilized_dscr.v,
              going_in_cap_rate          |-> dv.going_in_cap_rate,
              exit_cap_rate              |-> reversion.exit_cap_rate,
              price_per_unit             |-> dv.price_per_unit,
              price_per_sf               |-> dv.price_per_sf,
              used_variable_growth       |-> Len(d.yearly_revenue_growth) > 0 ]
        annual_amort ==
            IF amort_schedule = <<>> THEN <<>>
            ELSE [yr \in 1..Min(years, Len(amort_schedule) \div 12) |->
                      annual_amort_row(amort_schedule, yr)]
        ok == /\ ok_so_far
              /\ equity_mult.ok /\ after_tax_em.ok /\ coc_yr1.ok /\ coc_yr1_at.ok
              /\ dscr_yr1.ok /\ yoc.ok /\ stabilized_yoc.ok /\ stabilized_dscr.ok
    IN  IF ~ok THEN Raised
        ELSE [ raised               |-> FALSE,
               inputs               |-> [deal |-> d, derived |-> dv],
               sources_uses         |-> sources_uses,
               pro_forma            |-> [yr \in 1..years |-> yr_values[yr].row],
               amortization_monthly |-> amort_schedule,
               amortization_annual  |-> annual_amort,
               reversion            |-> reversion,
               metrics              |-> metrics,
               levered_cash_flows   |-> round2_all(levered_cfs),
               unlevered_cash_flows |-> round2_all(unlevered_cfs),
               after_tax_cash_flows |-> round2_all(levered_atcfs),
               annual_nois          |-> round2_all(annual_nois),
               annual_btcfs         |-> round2_all(annual_btcfs),
               annual_atcfs         |-> round2_all(annual_atcfs) ]

(* The three cash-flow lists, before and after tax *)
build_pro_forma_cash_flows(d, dv, annual_ds, amort_schedule, yr_values, annual_nois, annual_btcfs, annual_atcfs, sources_uses, reversion, exit_year, sale_price, sale_costs, net_sale_proceeds, net_sale_proceeds_after_tax, ok_so_far) ==
    LET equity == dv.equity_required
        total_cost == dv.total_project_cost
        last_btcf == PyAt(annual_btcfs, exit_year - 1)
        last_noi == PyAt(annual_nois, exit_year - 1)
        last_atcf == PyAt(annual_atcfs, exit_year - 1)
    IN  build_pro_forma_metrics(
            d, dv, annual_ds, amort_schedule, yr_values, annual_nois, annual_btcfs,
            annual_atcfs, sources_uses, reversion,
            <<-equity>> \o PyPrefix(annual_btcfs, exit_year - 1)
                \o <<last_btcf.v + net_sale_proceeds>>,
            <<-total_cost>> \o PyPrefix(annual_nois, exit_year - 1)
                \o <<last_noi.v + sale_price - sale_costs>>,
            <<-equity>> \o PyPrefix(annual_atcfs, exit_year - 1)
                \o <<last_atcf.v + net_sale_proceeds_after_tax>>,
            ok_so_far)

(* "Tax on sale" and the reversion dict *)
build_pro_forma_tax_on_sale(d, dv, annual_ds, amort_schedule, yr_values, annual_nois, annual_btcfs, annual_atcfs, sources_uses, exit_year, forward_noi, exit_cap, sale_price, sale_costs, loan_balance_at_exit, net_sale_proceeds, capital_gain, total_depreciation_taken, ok_so_far) ==
    LET adjusted_basis == dv.total_project_cost - total_depreciation_taken
        depreciation_recapture == MulDiv(Min(capital_gain, total_depreciation_taken), 25, 100)
        remaining_gain == MulDiv(Max(0, capital_gain - total_depreciation_taken), 20, 100)
        tax_on_sale == depreciation_recapture + remaining_gain
    IN  build_pro_forma_cash_flows(
            d, dv, annual_ds, amort_schedule, yr_values, annual_nois, annual_btcfs,
            annual_atcfs, sources_uses,
            [ exit_year                   |-> exit_year,
              forward_noi                 |-> round2(forward_noi),
              exit_cap_rate               |-> exit_cap,
              sale_price                  |-> round2(sale_price),
              sale_costs                  |-> round2(sale_costs),
              loan_balance                |-> round2(loan_balance_at_exit),
              net_sale_proceeds           |-> round2(net_sale_proceeds),
              total_depreciation          |-> round2(total_depreciation_taken),
              adjusted_basis              |-> round2(adjusted_basis),
              capital_gain                |-> round2(capital_gain),
              depreciation_recapture_tax  |-> round2(depreciation_recapture),
              capital_gains_tax           |-> round2(remaining_gain),
              total_tax_on_sale           |-> round2(tax_on_sale),
              net_sale_proceeds_after_tax |-> round2(net_sale_proceeds - tax_on_sale) ],
            exit_year, sale_price, sale_costs, net_sale_proceeds,
            net_sale_proceeds - tax_on_sale, ok_so_far)

(* The sale: price, costs and net proceeds *)
build_pro_forma_sale(d, dv, annual_ds, amort_schedule, yr_values, annual_nois, annual_btcfs, annual_atcfs, sources_uses, exit_year, forward_noi, exit_cap, sale_price, loan_balance_at_exit, ok_so_far) ==
    LET sale_costs == Frac(sale_price, d.sale_costs_pct)
        total_depreciation_taken == annual_depreciation(d) * exit_year
        adjusted_basis == dv.total_project_cost - total_depreciation_taken
    IN  build_pro_forma_tax_on_sale(
            d, dv, annual_ds, amort_schedule, yr_values, annual_nois, annual_btcfs,
            annual_atcfs, sources_uses, exit_year, forward_noi, exit_cap, sale_price,
            sale_costs, loan_balance_at_exit,
            sale_price - sale_costs - loan_balance_at_exit,
            Max(0, sale_price - sale_costs - adjusted_basis),
            total_depreciation_taken, ok_so_far)

(* "Exit / Reversion": the forward NOI, the exit cap rate and the loan balance *)
build_pro_forma_exit(d, dv, annual_ds, amort_schedule, yr_values, annual_nois, annual_btcfs, annual_atcfs, sources_uses, exit_year) ==
    LET exit_noi == PyAt(annual_nois, exit_year - 1)
        exit_growth == get_revenue_growth(d, exit_year)
        forward_noi == IF exit_year < Len(annual_nois)
                       THEN PyAt(annual_nois, exit_year)
                       ELSE IF exit_growth.ok
                            THEN Ok(exit_noi.v + Frac(exit_noi.v, exit_growth.v))
                            ELSE Raise
        exit_cap == IF dv.exit_cap_rate <= 0 THEN 600 ELSE dv.exit_cap_rate
        balance_row == IF amort_schedule # <<>> /\ exit_year * 12 <= Len(amort_schedule)
                       THEN PyAt(amort_schedule, exit_year * 12 - 1)
                       ELSE Ok([balance |-> dv.loan_amount])
    IN  build_pro_forma_sale(
            d, dv, annual_ds, amort_schedule, yr_values, annual_nois, annual_btcfs,
            annual_atcfs, sources_uses, exit_year, forward_noi.v, exit_cap,
            MulDiv(forward_noi.v, BPS, exit_cap),
            IF balance_row.ok THEN balance_row.v.balance ELSE 0,
            /\ \A yr \in 1..years : yr_values[yr].ok
            /\ exit_noi.ok /\ forward_noi.ok /\ balance_row.ok)

(* "Annual Pro Forma": the ten years and the lists annual_nois, annual_btcfs and *)
(* annual_atcfs                                                                  *)
build_pro_forma_annual(d, dv, annual_ds, amort_schedule, yr_values, sources_uses) ==
    build_pro_forma_exit(
        d, dv, annual_ds, amort_schedule, yr_values,
        [yr \in 1..years |-> yr_values[yr].noi],
        [yr \in 1..years |-> yr_values[yr].btcf],
        [yr \in 1..years |-> yr_values[yr].atcf],
        sources_uses, Min(d.hold_period_years, years))

(* "Debt Service": the payment and the amortization schedule *)
build_pro_forma_debt_service(d, dv, annual_ds, amort_schedule, sources_uses) ==
    build_pro_forma_annual(d, dv, annual_ds, amort_schedule,
                           pro_forma_years(<<>>, d, dv, amort_schedule, annual_ds, 1),
                           sources_uses)

(* "Sources & Uses" *)
build_pro_forma_sources_uses(d, dv) ==
    LET closing_costs == Frac(d.purchase_price, d.closing_costs_pct)
        has_debt == dv.loan_amount > 0 /\ d.interest_rate > 0
    IN  build_pro_forma_debt_service(
            d, dv,
            IF has_debt
            THEN calc_monthly_payment(dv.loan_amount, d.interest_rate,
                                      d.amortization_years) * 12
            ELSE 0,
            IF has_debt
            THEN build_amortization_schedule(dv.loan_amount, d.interest_rate,
                                             d.amortization_years, d.loan_term_years,
                                             d.io_period_years)
            ELSE <<>>,
            [ sources |-> [ senior_debt    |-> round2(dv.loan_amount),
                            sponsor_equity |-> round2(dv.equity_required),
                            total          |-> round2(dv.loan_amount + dv.equity_required) ],
              uses    |-> [ purchase_price       |-> round2(d.purchase_price),
                            closing_costs        |-> round2(closing_costs),
                            deferred_maintenance |-> round2(d.deferred_maintenance),
                            planned_capex        |-> round2(d.planned_capex),
                            total_capex          |-> round2(dv.total_capex),
                            total                |-> round2(dv.total_project_cost) ] ])

(* build_pro_forma(deal): the sections of the function in the order of the source, *)
(* each handing what it computed to the next                                       *)
build_pro_forma(d) == build_pro_forma_sources_uses(d, derive_assumptions(d))

----------------------------------------------------------------------------
(* The deals *)

BaseDeal ==
    [ property_type                 |-> "Multifamily - Class B",
      purchase_price                |-> 2000 * MIL,
      current_noi                   |-> 200 * MIL,
      total_units                   |-> 2,
      total_sf                      |-> 40,
      in_place_rent                 |-> 13 * MIL,
      market_rent                   |-> 15 * MIL,
      occupancy                     |-> 9200,
      deferred_maintenance          |-> 0,
      planned_capex                 |-> 50 * MIL,
      hold_period_years             |-> 7,
      ltv                           |-> 5000,
      interest_rate                 |-> 600,
      amortization_years            |-> 10,
      loan_term_years               |-> 10,
      io_period_years               |-> 0,
      closing_costs_pct             |-> 300,
      revenue_growth_rate           |-> 300,
      expense_growth_rate           |-> 300,
      management_fee_pct            |-> 350,
      exit_cap_rate_spread          |-> 25,
      sale_costs_pct                |-> 250,
      replacement_reserves_per_unit |-> 2 * MIL,
      tax_rate                      |-> 2500,
      land_value_pct                |-> 2000,
      yearly_revenue_growth         |-> <<>> ]

----------------------------------------------------------------------------
(* Objects.  A heap holds the caller's DealInputs object under the reference  *)
(* "deal" and the object made by the latest copy.deepcopy under "copy".       *)

new_heap(d) == [deal |-> d, copy |-> None]

(* copy.deepcopy(obj): a new object with the same field values; the result is *)
(* the heap with the new object in it and the reference to the new object     *)
(* A faulty deepcopy: the "copy" is the object itself *)
deepcopy_alias(heap, ref) == [heap |-> heap, ref |-> ref]
deepcopy(heap, ref) == [heap |-> [heap EXCEPT !.copy = heap[ref]], ref |-> "copy"]

(* obj.field = value *)
setattr(heap, ref, field, value) == [heap EXCEPT ![ref][field] = value]

----------------------------------------------------------------------------
(* numpy's global random generator, as a linear congruential generator *)

RngModulus == 256 * 256 + 1

(* np.random.seed(seed): the generator state that the seed determines *)
np_random_seed(seed) == (seed * 7919 + 1) % RngModulus

(* the generator state after one draw *)
np_random_advance(state) == (state * 75 + 74) % RngModulus

(* np.random.uniform(low, high): the value drawn in generator state `state` *)
np_random_uniform(state, low, high) ==
    low + ((high - low) * np_random_advance(state)) \div RngModulus

----------------------------------------------------------------------------
(* models/monte_carlo.py *)

(* round(x, 1) of a percentage held in basis points: to the nearest 0.1%, ties to even *)
round1_pct(x) ==
    LET q == x \div 10
        r == x % 10
    IN  IF r * 2 > 10 \/ (r * 2 = 10 /\ q % 2 = 1) THEN (q + 1) * 10 ELSE q * 10

(* round(a / b, 0) for b > 0, ties to even *)
round_div(a, b) ==
    LET q == a \div b
        r == a % b
    IN  IF r * 2 > b \/ (r * 2 = b /\ q % 2 = 1) THEN q + 1 ELSE q

(* sorted(xs), by insertion *)
RECURSIVE insert_sorted(_, _)
insert_sorted(sorted, x) ==
    IF sorted = <<>> THEN <<x>>
    ELSE IF x <= Head(sorted) THEN <<x>> \o sorted
    ELSE <<Head(sorted)>> \o insert_sorted(Tail(sorted), x)

RECURSIVE sort(_, _, _)
sort(xs, i, acc) ==
    IF i > Len(xs) \/ Len(acc) >= Len(xs) THEN acc
    ELSE sort(xs, i + 1, insert_sorted(acc, xs[i]))

(* np.percentile(irrs, q): linear interpolation between the closest ranks *)
np_percentile(sorted, q) ==
    LET pos == q * (Len(sorted) - 1)
        lo == pos \div 100
        fr == pos % 100
    IN  IF fr = 0 THEN sorted[lo + 1]
        ELSE sorted[lo + 1] + MulDiv(sorted[lo + 2] - sorted[lo + 1], fr, 100)

(* np.mean(condition) * 100, rounded to 0.1: in tenths of a percent *)
np_mean_pct(irrs, above, threshold) ==
    LET hits == Cardinality({i \in 1..Len(irrs) :
                                IF above THEN irrs[i] > threshold ELSE irrs[i] < threshold})
    IN  round_div(hits * (10 * 100), Len(irrs))

(* A faulty run_start: np.random.seed is not called, the loop draws from the *)
(* generator as the last caller left it                                      *)
run_start_unseeded(heap, seed) ==
    [ heap             |-> heap,
      rng              |-> np_random,
      i                |-> 0,
      draws            |-> 0,
      sim_deal         |-> "deal",
      irrs             |-> <<>>,
      equity_multiples |-> <<>>,
      failed           |-> 0,
      base_growth         |-> heap.deal.revenue_growth_rate,
      base_occ            |-> heap.deal.occupancy,
      base_exit_spread    |-> heap.deal.exit_cap_rate_spread,
      base_expense_growth |-> heap.deal.expense_growth_rate ]

(* The state of run() before its loop: the reseeded generator, the empty lists *)
(* and the four base values read from the deal                                  *)
run_start(heap, seed) ==
    [ heap             |-> heap,
      rng              |-> np_random_seed(seed),
      i                |-> 0,
      draws            |-> 0,
      sim_deal         |-> "deal",
      irrs             |-> <<>>,
      equity_multiples |-> <<>>,
      failed           |-> 0,
      base_growth         |-> heap.deal.revenue_growth_rate,
      base_occ            |-> heap.deal.occupancy,
      base_exit_spread    |-> heap.deal.exit_cap_rate_spread,
      base_expense_growth |-> heap.deal.expense_growth_rate ]

(* The validity test on the builder's result and what the iteration records *)
run_record(st, heap, result) ==
    LET irr == IF result.raised THEN None ELSE result.metrics.levered_irr
        valid == ~result.raised /\ irr # None /\ -BPS <= irr[1] /\ irr[1] <= 2 * BPS
    IN  IF valid
        THEN [st EXCEPT !.heap = heap, !.i = @ + 1, !.draws = 0,
                        !.irrs = Append(@, irr[1]),
                        !.equity_multiples = Append(@, result.metrics.equity_multiple)]
        ELSE [st EXCEPT !.heap = heap, !.i = @ + 1, !.draws = 0, !.failed = @ + 1]

(* The end of one iteration: the guarded call of the builder *)
run_build(st, heap) == run_record(st, heap, build_pro_forma(heap[st.sim_deal]))

(* A faulty run_draw: the revenue growth is shocked from the value the previous *)
(* iteration left in its deal, not from the base deal's                        *)
run_draw_drifting(st, rng) ==
    LET next == np_random_advance(rng)
    IN  IF st.draws = 0
        THEN LET previous == st.heap[st.sim_deal].revenue_growth_rate
                 c == deepcopy(st.heap, "deal")
                 growth_shock == np_random_uniform(rng, -3000, 3000)
                 h1 == setattr(c.heap, c.ref, "revenue_growth_rate",
                               Max(0, previous + Frac(previous, growth_shock)))
                 h2 == setattr(h1, c.ref, "yearly_revenue_growth", <<>>)
             IN  [st EXCEPT !.heap = h2, !.sim_deal = c.ref, !.rng = next, !.draws = 1]
        ELSE IF st.draws = 1
        THEN LET occ_shock == np_random_uniform(rng, -300, 300)
                 h == setattr(st.heap, st.sim_deal, "occupancy",
                              Max(6000, Min(9900, st.base_occ + occ_shock)))
             IN  [st EXCEPT !.heap = h, !.rng = next, !.draws = 2]
        ELSE IF st.draws = 2
        THEN LET cap_shock == np_random_uniform(rng, -50, 50)
                 h == setattr(st.heap, st.sim_deal, "exit_cap_rate_spread",
                              Max(0, st.base_exit_spread + cap_shock))
             IN  [st EXCEPT !.heap = h, !.rng = next, !.draws = 3]
        ELSE LET exp_shock == np_random_uniform(rng, -2500, 2500)
                 h == setattr(st.heap, st.sim_deal, "expense_growth_rate",
                              Max(0, st.base_expense_growth
                                     + Frac(st.base_expense_growth, exp_shock)))
             IN  run_build([st EXCEPT !.rng = next], h)

(* One draw of the loop body with everything that follows it up to the next draw. *)
(* `rng` is the state of the global generator when the draw is made.              *)
run_draw(st, rng) ==
    LET next == np_random_advance(rng)
    IN  IF st.draws = 0
        THEN LET c == deepcopy(st.heap, "deal")
                 growth_shock == np_random_uniform(rng, -3000, 3000)
                 h1 == setattr(c.heap, c.ref, "revenue_growth_rate",
                               Max(0, st.base_growth + Frac(st.base_growth, growth_shock)))
                 h2 == setattr(h1, c.ref, "yearly_revenue_growth", <<>>)
             IN  [st EXCEPT !.heap = h2, !.sim_deal = c.ref, !.rng = next, !.draws = 1]
        ELSE IF st.draws = 1
        THEN LET occ_shock == np_random_uniform(rng, -300, 300)
                 h == setattr(st.heap, st.sim_deal, "occupancy",
                              Max(6000, Min(9900, st.base_occ + occ_shock)))
             IN  [st EXCEPT !.heap = h, !.rng = next, !.draws = 2]
        ELSE IF st.draws = 2
        THEN LET cap_shock == np_random_uniform(rng, -50, 50)
                 h == setattr(st.heap, st.sim_deal, "exit_cap_rate_spread",
                              Max(0, st.base_exit_spread + cap_shock))
             IN  [st EXCEPT !.heap = h, !.rng = next, !.draws = 3]
        ELSE LET exp_shock == np_random_uniform(rng, -2500, 2500)
                 h == setattr(st.heap, st.sim_deal, "expense_growth_rate",
                              Max(0, st.base_expense_growth
                                     + Frac(st.base_expense_growth, exp_shock)))
             IN  run_build([st EXCEPT !.rng = next], h)

(* A faulty too_few_valid: ten valid iterations are still too few *)
too_few_valid_at_ten(irrs) == Len(irrs) <= 10

(* "len(irrs) < 10": too few valid iterations for a distribution *)
too_few_valid(irrs) == Len(irrs) < 10

(* A faulty mc_signal: the share of losses is looked at first *)
mc_signal_losses_first(prob_8, prob_12, prob_negative) ==
    IF prob_negative > 200 THEN "WARNING"
    ELSE IF prob_12 >= 700 THEN "POSITIVE"
    ELSE IF prob_8 >= 700 THEN "MODERATE"
    ELSE "NEUTRAL"

(* "MC signal for recommendation", from probabilities in tenths of a percent *)
mc_signal(prob_8, prob_12, prob_negative) ==
    IF prob_12 >= 700 THEN "POSITIVE"
    ELSE IF prob_8 >= 700 THEN "MODERATE"
    ELSE IF prob_negative > 200 THEN "WARNING"
    ELSE "NEUTRAL"

(* min(irrs), max(irrs) *)
np_min(irrs) == CHOOSE v \in {irrs[i] : i \in 1..Len(irrs)} : \A i \in 1..Len(irrs) : v <= irrs[i]

np_max(irrs) == CHOOSE v \in {irrs[i] : i \in 1..Len(irrs)} : \A i \in 1..Len(irrs) : v >= irrs[i]

(* "n_bins = 20" *)
n_bins == 20

(* A faulty np_histogram_counts: the last bucket is open on the right, so the *)
(* largest value falls outside every bucket                                   *)
np_histogram_counts_open(irrs, bins) ==
    LET lo == np_min(irrs)
        hi == np_max(irrs)
        first_edge == IF lo = hi THEN lo - 50 ELSE lo
        last_edge == IF lo = hi THEN hi + 50 ELSE hi
        bucket(v) == ((v - first_edge) * bins) \div (last_edge - first_edge)
    IN  [ k \in 1..bins |->
              Cardinality({i \in 1..Len(irrs) : bucket(irrs[i]) = k - 1}) ]

(* np.histogram(irrs, bins=bins)[0]: equal-width buckets from the smallest to *)
(* the largest value, each closed on the left, the last one closed on both      *)
(* sides; a sample of one value gets the range half a point either side of it   *)
np_histogram_counts(irrs, bins) ==
    LET lo == np_min(irrs)
        hi == np_max(irrs)
        first_edge == IF lo = hi THEN lo - 50 ELSE lo
        last_edge == IF lo = hi THEN hi + 50 ELSE hi
        bucket(v) == Min(bins - 1,
                         ((v - first_edge) * bins) \div (last_edge - first_edge))
    IN  [ k \in 1..bins |->
              Cardinality({i \in 1..Len(irrs) : bucket(irrs[i]) = k - 1}) ]

(* np.histogram(irrs, bins=bins)[1], each edge rounded to 0.1 *)
np_histogram_edges(irrs, bins) ==
    LET lo == np_min(irrs)
        hi == np_max(irrs)
        first_edge == IF lo = hi THEN lo - 50 ELSE lo
        last_edge == IF lo = hi THEN hi + 50 ELSE hi
    IN  [ k \in 1..(bins + 1) |->
              round_div(first_edge * bins + (k - 1) * (last_edge - first_edge),
                        bins * 10) * 10 ]

(* What run() returns after its loop *)
run_finish(st, n_iterations) ==
    IF too_few_valid(st.irrs)
    THEN [ error |-> [ message      |-> "Too few valid simulations",
                       valid        |-> Len(st.irrs),
                       n_iterations |-> n_iterations ] ]
    ELSE LET irrs == st.irrs
             sorted == sort(irrs, 1, <<>>)
             pct(q) == round1_pct(np_percentile(sorted, q))
             prob_8 == np_mean_pct(irrs, TRUE, 800)
             prob_12 == np_mean_pct(irrs, TRUE, 1200)
             prob_15 == np_mean_pct(irrs, TRUE, 1500)
             prob_negative == np_mean_pct(irrs, FALSE, 0)
         IN  [ n_iterations      |-> n_iterations,
               valid_iterations  |-> Len(irrs),
               failed_iterations |-> st.failed,
               mean_irr          |-> round_div(sum_from(irrs, 1), Len(irrs) * 10) * 10,
               min_irr           |-> round1_pct(sorted[1]),
               max_irr           |-> round1_pct(sorted[Len(sorted)]),
               mean_em           |-> round_div(sum_from(st.equity_multiples, 1),
                                               Len(irrs) * 100) * 100,
               percentiles       |-> [ P5 |-> pct(5), P10 |-> pct(10), P25 |-> pct(25),
                                       P50 |-> pct(50), P75 |-> pct(75), P90 |-> pct(90),
                                       P95 |-> pct(95) ],
               probabilities     |-> [ irr_gt_8 |-> prob_8, irr_gt_12 |-> prob_12,
                                       irr_gt_15 |-> prob_15, irr_lt_0 |-> prob_negative ],
               histogram_bins    |-> np_histogram_edges(irrs, n_bins),
               histogram_counts  |-> np_histogram_counts(irrs, n_bins),
               mc_signal         |-> mc_signal(prob_8, prob_12, prob_negative) ]

(* The loop of run() executed without interruption from generator state st.rng *)
RECURSIVE run_loop(_, _)
run_loop(st, n_iterations) ==
    IF st.i >= n_iterations THEN st
    ELSE run_loop(run_draw(st, st.rng), n_iterations)

(* run() returns from loop state st *)
run_return(st, n_iterations) ==
    [ result |-> run_finish(st, n_iterations), heap |-> st.heap, rng |-> st.rng ]

(* MonteCarloSimulator(n_iterations, seed).run(deal, build_pro_forma): the result, *)
(* the heap and the global generator as the call leaves them                      *)
MonteCarloSimulator_run(heap, n_iterations, seed) ==
    run_return(run_loop(run_start(heap, seed), n_iterations), n_iterations)

----------------------------------------------------------------------------
(* models/metrics.py: the sensitivity tables *)

(* round(x, 2) of a ratio held in basis points: to the nearest 0.01, ties to even *)
round2_ratio(x) == round_div(x, 100) * 100

(* "round(irr * 100, 2) if irr else None" *)
report_irr(irr) == IF irr = None \/ irr = Some(0) THEN None ELSE irr

(* "round(v, 2) if v else None" for a ratio *)
report_ratio(v) == IF v = 0 THEN None ELSE Some(round2_ratio(v))

ExitCapIncrements == <<-100, -50, -25, 0, 25, 50, 100>>
RateDeltas == <<-150, -100, -50, 0, 50, 100, 150>>
GrowthDeltas == <<-200, -100, 0, 100, 200>>
PriceDeltas == <<-1000, -500, 0, 500, 1000>>

(* A faulty exit_cap_row: the NOI is multiplied by the cap rate, not divided by it *)
exit_cap_row_multiplying(base_noi_at_exit, base_exit_cap, equity_invested, annual_cfs, sale_costs_pct, loan_balance_at_exit, delta) ==
    LET cap == base_exit_cap + delta
        sale_price == MulDiv(base_noi_at_exit, cap, BPS)
        net_proceeds == Frac(sale_price, BPS - sale_costs_pct) - loan_balance_at_exit
        cfs_full == IF Len(annual_cfs) > 0
                    THEN <<-equity_invested>> \o PyPrefix(annual_cfs, -1)
                         \o <<annual_cfs[Len(annual_cfs)] + net_proceeds>>
                    ELSE <<-equity_invested, net_proceeds>>
    IN  [ exit_cap_rate   |-> cap,
          sale_price      |-> round0(sale_price),
          net_proceeds    |-> round0(net_proceeds),
          irr             |-> report_irr(calc_irr(cfs_full)),
          equity_multiple |-> round2_ratio(calc_equity_multiple(cfs_full).v) ]

(* One row of the exit-cap table; the caller skips the deltas with cap <= 0 *)
exit_cap_row(base_noi_at_exit, base_exit_cap, equity_invested, annual_cfs, sale_costs_pct, loan_balance_at_exit, delta) ==
    LET cap == base_exit_cap + delta
        sale_price == MulDiv(base_noi_at_exit, BPS, cap)
        net_proceeds == Frac(sale_price, BPS - sale_costs_pct) - loan_balance_at_exit
        cfs_full == IF Len(annual_cfs) > 0
                    THEN <<-equity_invested>> \o PyPrefix(annual_cfs, -1)
                         \o <<annual_cfs[Len(annual_cfs)] + net_proceeds>>
                    ELSE <<-equity_invested, net_proceeds>>
    IN  [ exit_cap_rate   |-> cap,
          sale_price      |-> round0(sale_price),
          net_proceeds    |-> round0(net_proceeds),
          irr             |-> report_irr(calc_irr(cfs_full)),
          equity_multiple |-> round2_ratio(calc_equity_multiple(cfs_full).v) ]

RECURSIVE exit_cap_rows(_, _, _, _, _, _, _, _)
exit_cap_rows(results, base_noi_at_exit, base_exit_cap, equity_invested, annual_cfs, sale_costs_pct, loan_balance_at_exit, k) ==
    IF k > Len(ExitCapIncrements) \/ Len(results) >= k THEN results
    ELSE exit_cap_rows(
             IF base_exit_cap + ExitCapIncrements[k] <= 0 THEN results
             ELSE Append(results,
                         exit_cap_row(base_noi_at_exit, base_exit_cap, equity_invested,
                                      annual_cfs, sale_costs_pct, loan_balance_at_exit,
                                      ExitCapIncrements[k])),
             base_noi_at_exit, base_exit_cap, equity_invested, annual_cfs,
             sale_costs_pct, loan_balance_at_exit, k + 1)

sensitivity_table_exit_cap(base_noi_at_exit, base_exit_cap, equity_invested, annual_cfs, sale_costs_pct, loan_balance_at_exit) ==
    exit_cap_rows(<<>>, base_noi_at_exit, base_exit_cap, equity_invested, annual_cfs,
                  sale_costs_pct, loan_balance_at_exit, 1)

(* The state of a table generator's loop: the heap, the rows so far and whether *)
(* a call of build_pro_forma raised                                              *)
table_start(heap) == [heap |-> heap, results |-> <<>>, raised |-> FALSE]

(* results.append({...}) of sensitivity_table_noi_growth *)
noi_growth_row(st, delta, heap, modified, pf) ==
    IF st.raised \/ pf.raised THEN [st EXCEPT !.heap = heap, !.raised = TRUE]
    ELSE [st EXCEPT !.heap = heap,
                    !.results = Append(@,
                        [ noi_growth_rate |-> st.heap.deal.revenue_growth_rate + delta,
                          irr             |-> report_irr(pf.metrics.levered_irr),
                          equity_multiple |-> report_ratio(pf.metrics.equity_multiple) ])]

(* One pass of the loop of sensitivity_table_noi_growth *)
noi_growth_pass(st, delta) ==
    LET base == st.heap.deal.revenue_growth_rate
        c == deepcopy(st.heap, "deal")
        h == setattr(c.heap, c.ref, "revenue_growth_rate", base + delta)
    IN  noi_growth_row(st, delta, h, h[c.ref], build_pro_forma(h[c.ref]))

(* results.append({...}) of sensitivity_table_interest_rate *)
interest_rate_row(st, delta, heap, modified, pf) ==
    IF st.raised \/ pf.raised THEN [st EXCEPT !.heap = heap, !.raised = TRUE]
    ELSE [st EXCEPT !.heap = heap,
                    !.results = Append(@,
                        [ interest_rate   |-> st.heap.deal.interest_rate + delta,
                          irr             |-> report_irr(pf.metrics.levered_irr),
                          equity_multiple |-> report_ratio(pf.metrics.equity_multiple),
                          dscr            |-> report_ratio(pf.metrics.dscr_yr1) ])]

(* One pass of the loop of sensitivity_table_interest_rate *)
interest_rate_pass(st, delta) ==
    LET c == deepcopy(st.heap, "deal")
        h == setattr(c.heap, c.ref, "interest_rate",
                     Max(100, st.heap.deal.interest_rate + delta))
    IN  interest_rate_row(st, delta, h, h[c.ref], build_pro_forma(h[c.ref]))

(* results.append({...}) of sensitivity_table_rent_growth *)
rent_growth_row(st, delta, heap, modified, pf) ==
    IF st.raised \/ pf.raised THEN [st EXCEPT !.heap = heap, !.raised = TRUE]
    ELSE [st EXCEPT !.heap = heap,
                    !.results = Append(@,
                        [ rent_growth     |-> st.heap.deal.revenue_growth_rate + delta,
                          irr             |-> report_irr(pf.metrics.levered_irr),
                          equity_multiple |-> report_ratio(pf.metrics.equity_multiple),
                          stabilized_yoc  |-> IF pf.metrics.stabilized_yoc = 0 THEN None
                                              ELSE Some(pf.metrics.stabilized_yoc) ])]

(* One pass of the loop of sensitivity_table_rent_growth *)
rent_growth_pass(st, delta) ==
    LET c == deepcopy(st.heap, "deal")
        h1 == setattr(c.heap, c.ref, "revenue_growth_rate",
                      Max(0, st.heap.deal.revenue_growth_rate + delta))
        h == setattr(h1, c.ref, "yearly_revenue_growth", <<>>)
    IN  rent_growth_row(st, delta, h, h[c.ref], build_pro_forma(h[c.ref]))

(* results.append({...}) of sensitivity_table_purchase_price *)
purchase_price_row(st, delta, heap, modified, pf) ==
    IF st.raised \/ pf.raised THEN [st EXCEPT !.heap = heap, !.raised = TRUE]
    ELSE [st EXCEPT !.heap = heap,
                    !.results = Append(@,
                        [ price_change    |-> delta,
                          purchase_price  |-> round0(modified.purchase_price),
                          irr             |-> report_irr(pf.metrics.levered_irr),
                          equity_multiple |-> report_ratio(pf.metrics.equity_multiple) ])]

(* One pass of the loop of sensitivity_table_purchase_price *)
purchase_price_pass(st, delta) ==
    LET c == deepcopy(st.heap, "deal")
        price == st.heap.deal.purchase_price + Frac(st.heap.deal.purchase_price, delta)
        h == setattr(c.heap, c.ref, "purchase_price", price)
    IN  purchase_price_row(st, delta, h, h[c.ref], build_pro_forma(h[c.ref]))

(* "for delta in deltas" of sensitivity_table_noi_growth *)
RECURSIVE noi_growth_loop(_, _)
noi_growth_loop(st, k) ==
    IF k > Len(GrowthDeltas) \/ st.raised THEN st
    ELSE noi_growth_loop(noi_growth_pass(st, GrowthDeltas[k]), k + 1)

(* "for delta in deltas" of sensitivity_table_interest_rate *)
RECURSIVE interest_rate_loop(_, _)
interest_rate_loop(st, k) ==
    IF k > Len(RateDeltas) \/ st.raised THEN st
    ELSE interest_rate_loop(interest_rate_pass(st, RateDeltas[k]), k + 1)

(* "for delta in deltas" of sensitivity_table_rent_growth *)
RECURSIVE rent_growth_loop(_, _)
rent_growth_loop(st, k) ==
    IF k > Len(GrowthDeltas) \/ st.raised THEN st
    ELSE rent_growth_loop(rent_growth_pass(st, GrowthDeltas[k]), k + 1)

(* "for delta in deltas" of sensitivity_table_purchase_price *)
RECURSIVE purchase_price_loop(_, _)
purchase_price_loop(st, k) ==
    IF k > Len(PriceDeltas) \/ st.raised THEN st
    ELSE purchase_price_loop(purchase_price_pass(st, PriceDeltas[k]), k + 1)

sensitivity_table_noi_growth(heap) == noi_growth_loop(table_start(heap), 1)
sensitivity_table_interest_rate(heap) == interest_rate_loop(table_start(heap), 1)
sensitivity_table_rent_growth(heap) == rent_growth_loop(table_start(heap), 1)
sensitivity_table_purchase_price(heap) == purchase_price_loop(table_start(heap), 1)

----------------------------------------------------------------------------
(* app.py *)

(* The dict _build_sensitivity returns, from the tables' results: ir, rg and pp *)
(* are what the three generators that take the deal returned                    *)
build_sensitivity_dict(heap, result, ir, rg, pp) ==
    LET rev == result.reversion
    IN  [ raised         |-> ir.raised \/ rg.raised \/ pp.raised,
          heap           |-> pp.heap,
          exit_cap       |-> sensitivity_table_exit_cap(
                                 rev.forward_noi, rev.exit_cap_rate,
                                 result.inputs.derived.equity_required,
                                 PyPrefix(result.annual_btcfs, rev.exit_year),
                                 heap.deal.sale_costs_pct, rev.loan_balance),
          interest_rate  |-> ir.results,
          rent_growth    |-> rg.results,
          purchase_price |-> pp.results ]

(* "purchase_price": sensitivity_table_purchase_price(deal) *)
build_sensitivity_purchase_price(heap, result, ir, rg) ==
    build_sensitivity_dict(heap, result, ir, rg, sensitivity_table_purchase_price(rg.heap))

(* "rent_growth": sensitivity_table_rent_growth(deal) *)
build_sensitivity_rent_growth(heap, result, ir) ==
    build_sensitivity_purchase_price(heap, result, ir, sensitivity_table_rent_growth(ir.heap))

(* _build_sensitivity(deal, result): the four tables, the heap as the calls *)
(* leave it, and whether a call raised                                      *)
build_sensitivity(heap, result) ==
    build_sensitivity_rent_growth(heap, result, sensitivity_table_interest_rate(heap))

----------------------------------------------------------------------------
(* The deals the specifications start from *)

(* The thread that generates training data, before it starts *)
Idle == [pos |-> "idle", draws |-> 0]

(* d with the fields of o replaced by o's values *)
Override(d, o) == [f \in DOMAIN d |-> IF f \in DOMAIN o THEN o[f] ELSE d[f]]

(* Inputs for derive_assumptions: income, fee, occupancy, type and size vary *)
DeriveDeals ==
    { Override(BaseDeal,
               [ current_noi |-> noi, management_fee_pct |-> fee, occupancy |-> occ,
                 property_type |-> type, in_place_rent |-> rent, total_units |-> units ]) :
        noi \in {-50 * MIL, 0, 100 * MIL, 200 * MIL, 400 * MIL},
        fee \in {0, 350, 9000},
        occ \in {0, 9200, BPS},
        type \in {"Multifamily - Class B", "Office"},
        rent \in {1, 13 * MIL},
        units \in {1, 2} }

(* Price and financing: the base, no loan, no interest, no equity, interest-only  *)
(* years, interest-only years before an amortization that ends within the term,  *)
(* no price, and no cost at all                                                   *)
CapitalVariants ==
    { [ltv |-> 5000],
      [ltv |-> 0],
      [interest_rate |-> 0],
      [ltv |-> 10550],
      [io_period_years |-> 2],
      [io_period_years |-> 2, amortization_years |-> 5],
      [purchase_price |-> 0],
      [purchase_price |-> 0, planned_capex |-> 0] }

(* Income, growth, exit spread and hold period *)
OperatingVariants ==
    { [hold_period_years |-> 7],
      [hold_period_years |-> 12],
      [hold_period_years |-> 2, market_rent |-> 0],
      [hold_period_years |-> -11],
      [yearly_revenue_growth |-> <<50, 40, 30>>, revenue_growth_rate |-> 200,
       hold_period_years |-> 5],
      [yearly_revenue_growth |-> <<50, 40, 30>>, revenue_growth_rate |-> 200,
       hold_period_years |-> 1],
      [yearly_revenue_growth |-> <<50, 40, 30>>, revenue_growth_rate |-> 200,
       market_rent |-> 13 * MIL],
      [yearly_revenue_growth |-> <<30, 30, 30, 30>>, hold_period_years |-> 2],
      [yearly_revenue_growth |-> <<50, 40, 30>>, revenue_growth_rate |-> 200,
       hold_period_years |-> 0],
      [current_noi |-> 10 * MIL, revenue_growth_rate |-> 0, expense_growth_rate |-> 800],
      [current_noi |-> -300 * MIL],
      [exit_cap_rate_spread |-> -1200],
      [exit_cap_rate_spread |-> 0, current_noi |-> 1] }

BuildDeals ==
    { Override(Override(BaseDeal, c), o) : c \in CapitalVariants, o \in OperatingVariants }

(* The spreads a second build is made with *)
SpreadSteps == {0, 25, 1300}

----------------------------------------------------------------------------
(* The pro forma and its exit-cap table, for one deal after another *)

BuildInit ==
    /\ deal \in BuildDeals
    /\ derived = None
    /\ pro_forma = None
    /\ first_pro_forma = None
    /\ sensitivity = None
    /\ monte_carlo = None
    /\ first_monte_carlo = None
    /\ simulator = None
    /\ np_random = 0
    /\ run = None
    /\ trainer = Idle
    /\ alone = None
    /\ rent_prediction = None
    /\ ml_valuation = None
    /\ lease_analysis = None
    /\ recommendation = None
    /\ jobs = <<>>
    /\ threads = <<>>
    /\ response = None
    /\ pc = "input"

(* result = build_pro_forma(deal) *)
BuildProForma ==
    /\ pc = "input"
    /\ pro_forma' = build_pro_forma(deal)
    /\ first_pro_forma' = pro_forma'
    /\ pc' = "built"
    /\ UNCHANGED job_vars
    /\ UNCHANGED scorer_vars
    /\ UNCHANGED <<deal, derived, sensitivity, monte_carlo, first_monte_carlo,
                   simulator, np_random, run, trainer, alone>>

(* The exit-cap table of _build_sensitivity, from the result of the build *)
ExitCapTable ==
    /\ pc \in {"built", "rebuilt"}
    /\ ~pro_forma.raised
    /\ sensitivity' =
           [ exit_cap |-> sensitivity_table_exit_cap(
                              pro_forma.reversion.forward_noi,
                              pro_forma.reversion.exit_cap_rate,
                              pro_forma.inputs.derived.equity_required,
                              PyPrefix(pro_forma.annual_btcfs, pro_forma.reversion.exit_year),
                              deal.sale_costs_pct,
                              pro_forma.reversion.loan_balance) ]
    /\ pc' = "tabulated"
    /\ UNCHANGED job_vars
    /\ UNCHANGED scorer_vars
    /\ UNCHANGED <<deal, derived, pro_forma, first_pro_forma, monte_carlo,
                   first_monte_carlo, simulator, np_random, run, trainer, alone>>

(* A second build, for a deal that differs from the first in its exit-cap spread *)
(* by `step` basis points                                                        *)
BuildWithSpread(step) ==
    /\ pc = "built"
    /\ deal' = [deal EXCEPT !.exit_cap_rate_spread = @ + step]
    /\ pro_forma' = build_pro_forma(deal')
    /\ pc' = "rebuilt"
    /\ UNCHANGED job_vars
    /\ UNCHANGED scorer_vars
    /\ UNCHANGED <<derived, first_pro_forma, sensitivity, monte_carlo, first_monte_carlo,
                   simulator, np_random, run, trainer, alone>>

BuildNext ==
    \/ BuildProForma
    \/ ExitCapTable
    \/ \E step \in SpreadSteps : BuildWithSpread(step)

SpecBuild == BuildInit /\ [][BuildNext]_vars

----------------------------------------------------------------------------
(* derive_assumptions alone, over a wide set of inputs *)

DeriveInit ==
    /\ deal \in DeriveDeals
    /\ derived = None
    /\ pro_forma = None
    /\ first_pro_forma = None
    /\ sensitivity = None
    /\ monte_carlo = None
    /\ first_monte_carlo = None
    /\ simulator = None
    /\ np_random = 0
    /\ run = None
    /\ trainer = Idle
    /\ alone = None
    /\ rent_prediction = None
    /\ ml_valuation = None
    /\ lease_analysis = None
    /\ recommendation = None
    /\ jobs = <<>>
    /\ threads = <<>>
    /\ response = None
    /\ pc = "input"

(* derived = derive_assumptions(deal) *)
Derive ==
    /\ pc = "input"
    /\ derived' = derive_assumptions(deal)
    /\ pc' = "derived"
    /\ UNCHANGED job_vars
    /\ UNCHANGED scorer_vars
    /\ UNCHANGED <<deal, pro_forma, first_pro_forma, sensitivity, monte_carlo,
                   first_monte_carlo, simulator, np_random, run, trainer, alone>>

DeriveNext == Derive

SpecDerive == DeriveInit /\ [][DeriveNext]_vars

----------------------------------------------------------------------------
(* The engine as its callers use it: a build, sensitivity tables, a Monte Carlo *)
(* run, then the build and the run once more on the same deal object            *)

(* A deal bought almost wholly with debt and held two years, with no rent gap   *)
(* and no capex: its simulated returns are spread from losses to high gains     *)
Thin(spread) ==
    Override(BaseDeal, [ ltv |-> 9800, hold_period_years |-> 2, market_rent |-> 13 * MIL,
                         planned_capex |-> 0, exit_cap_rate_spread |-> spread ])

(* The deals of this specification: the base, one with predicted growth rates,  *)
(* two whose simulated returns lie on both sides of the upper end of the        *)
(* validity band, one for which build_pro_forma raises, and two thin ones       *)
EngineDeals ==
    { BaseDeal,
      Thin(50),
      Thin(60),
      Override(BaseDeal, [yearly_revenue_growth |-> <<50, 40, 30>>, hold_period_years |-> 5]),
      Override(BaseDeal, [ltv |-> 0, purchase_price |-> 593 * (MIL \div 10)]),
      Override(BaseDeal, [ltv |-> 0, purchase_price |-> 594 * (MIL \div 10)]),
      Override(BaseDeal, [hold_period_years |-> -11]) }

Iterations == {9, 12}
Seeds == {1, 7, 42}

Init ==
    /\ deal \in EngineDeals
    /\ derived = None
    /\ pro_forma = None
    /\ first_pro_forma = None
    /\ sensitivity = None
    /\ monte_carlo = None
    /\ first_monte_carlo = None
    /\ simulator = None
    /\ np_random = 0
    /\ run = None
    /\ trainer = Idle
    /\ alone = None
    /\ rent_prediction = None
    /\ ml_valuation = None
    /\ lease_analysis = None
    /\ recommendation = None
    /\ jobs = <<>>
    /\ threads = <<>>
    /\ response = None
    /\ pc = "input"

(* result = build_pro_forma(deal), the first call *)
FirstBuild ==
    /\ pc = "input"
    /\ pro_forma' = build_pro_forma(deal)
    /\ first_pro_forma' = pro_forma'
    /\ pc' = "built"
    /\ UNCHANGED job_vars
    /\ UNCHANGED scorer_vars
    /\ UNCHANGED <<deal, derived, sensitivity, monte_carlo, first_monte_carlo,
                   simulator, np_random, run, trainer, alone>>

(* _build_sensitivity(deal, result); an exception of a generator ends the job *)
BuildSensitivity ==
    /\ pc = "built"
    /\ ~pro_forma.raised
    /\ \E out \in {build_sensitivity(new_heap(deal), pro_forma)} :
           /\ sensitivity' = IF out.raised THEN [raised |-> TRUE]
                             ELSE [ raised         |-> FALSE,
                                    exit_cap       |-> out.exit_cap,
                                    interest_rate  |-> out.interest_rate,
                                    rent_growth    |-> out.rent_growth,
                                    purchase_price |-> out.purchase_price ]
           /\ deal' = out.heap.deal
    /\ pc' = "tabulated"
    /\ UNCHANGED job_vars
    /\ UNCHANGED scorer_vars
    /\ UNCHANGED <<derived, pro_forma, first_pro_forma, monte_carlo, first_monte_carlo,
                   simulator, np_random, run, trainer, alone>>

(* sensitivity_table_noi_growth(deal) *)
NoiGrowthTable ==
    /\ pc = "built"
    /\ \E out \in {sensitivity_table_noi_growth(new_heap(deal))} :
           /\ sensitivity' = IF out.raised THEN [raised |-> TRUE]
                             ELSE [raised |-> FALSE, noi_growth |-> out.results]
           /\ deal' = out.heap.deal
    /\ pc' = "tabulated"
    /\ UNCHANGED job_vars
    /\ UNCHANGED scorer_vars
    /\ UNCHANGED <<derived, pro_forma, first_pro_forma, monte_carlo, first_monte_carlo,
                   simulator, np_random, run, trainer, alone>>

(* MonteCarloSimulator(n_iterations, seed).run(deal, build_pro_forma), the first run *)
FirstRun(n_iterations, seed) ==
    /\ pc = "tabulated"
    /\ simulator' = [n_iterations |-> n_iterations, seed |-> seed]
    /\ \E out \in {MonteCarloSimulator_run(new_heap(deal), n_iterations, seed)} :
           /\ monte_carlo' = out.result
           /\ first_monte_carlo' = out.result
           /\ np_random' = out.rng
           /\ deal' = out.heap.deal
    /\ pc' = "simulated"
    /\ UNCHANGED job_vars
    /\ UNCHANGED scorer_vars
    /\ UNCHANGED <<derived, pro_forma, first_pro_forma, sensitivity, run, trainer, alone>>

(* build_pro_forma(deal) once more, after the other calls *)
SecondBuild ==
    /\ pc = "simulated"
    /\ pro_forma' = build_pro_forma(deal)
    /\ pc' = "rebuilt"
    /\ UNCHANGED job_vars
    /\ UNCHANGED scorer_vars
    /\ UNCHANGED <<deal, derived, first_pro_forma, sensitivity, monte_carlo,
                   first_monte_carlo, simulator, np_random, run, trainer, alone>>

(* The same simulator run again on the same deal; the generator is where the *)
(* first run left it                                                          *)
SecondRun ==
    /\ pc = "rebuilt"
    /\ \E out \in {MonteCarloSimulator_run(new_heap(deal), simulator.n_iterations,
                                            simulator.seed)} :
           /\ monte_carlo' = out.result
           /\ np_random' = out.rng
           /\ deal' = out.heap.deal
    /\ pc' = "done"
    /\ UNCHANGED job_vars
    /\ UNCHANGED scorer_vars
    /\ UNCHANGED <<derived, pro_forma, first_pro_forma, sensitivity, first_monte_carlo,
                   simulator, run, trainer, alone>>

Next ==
    \/ FirstBuild
    \/ BuildSensitivity
    \/ NoiGrowthTable
    \/ \E n_iterations \in Iterations, seed \in Seeds : FirstRun(n_iterations, seed)
    \/ SecondBuild
    \/ SecondRun

Spec == Init /\ [][Next]_vars

----------------------------------------------------------------------------
(* Two threads of the server: a job in MonteCarloSimulator.run, and another job *)
(* in PropertyValuationModel._generate_training_data.  Both use numpy's global  *)
(* generator; a thread switch can fall between any two calls of it.             *)

MaxTrainDraws == 1

(* The deals of the job that runs the simulation *)
ConcDeals ==
    { Override(BaseDeal, [ltv |-> 0]),
      Override(BaseDeal, [ltv |-> 0, hold_period_years |-> 3]) }

ConcInit ==
    /\ deal \in ConcDeals
    /\ derived = None
    /\ pro_forma = None
    /\ first_pro_forma = None
    /\ sensitivity = None
    /\ monte_carlo = None
    /\ first_monte_carlo = None
    /\ simulator = [n_iterations |-> 10, seed |-> 42]
    /\ np_random = 0
    /\ run = None
    /\ trainer = Idle
    /\ alone = MonteCarloSimulator_run(new_heap(deal), simulator.n_iterations,
                                       simulator.seed).result
    /\ rent_prediction = None
    /\ ml_valuation = None
    /\ lease_analysis = None
    /\ recommendation = None
    /\ jobs = <<>>
    /\ threads = <<>>
    /\ response = None
    /\ pc = "pending"

(* The job thread enters run(): np.random.seed(self.seed) and the lines before the loop *)
RunSeed ==
    /\ pc = "pending"
    /\ run' = run_start(new_heap(deal), simulator.seed)
    /\ np_random' = np_random_seed(simulator.seed)
    /\ pc' = "monte_carlo"
    /\ UNCHANGED job_vars
    /\ UNCHANGED scorer_vars
    /\ UNCHANGED <<deal, derived, pro_forma, first_pro_forma, sensitivity, monte_carlo,
                   first_monte_carlo, simulator, trainer, alone>>

(* The job thread makes its next np.random.uniform call, on the global generator *)
RunDraw ==
    /\ pc = "monte_carlo"
    /\ run.i < simulator.n_iterations
    /\ \E st \in {run_draw(run, np_random)} :
           /\ run' = st
           /\ np_random' = st.rng
    /\ UNCHANGED job_vars
    /\ UNCHANGED scorer_vars
    /\ UNCHANGED <<deal, derived, pro_forma, first_pro_forma, sensitivity, monte_carlo,
                   first_monte_carlo, simulator, trainer, alone, pc>>

(* The loop is over: run() returns *)
RunFinish ==
    /\ pc = "monte_carlo"
    /\ run.i >= simulator.n_iterations
    /\ monte_carlo' = run_finish(run, simulator.n_iterations)
    /\ deal' = run.heap.deal
    /\ pc' = "complete"
    /\ UNCHANGED job_vars
    /\ UNCHANGED scorer_vars
    /\ UNCHANGED <<derived, pro_forma, first_pro_forma, sensitivity, first_monte_carlo,
                   simulator, np_random, run, trainer, alone>>

(* The other thread: np.random.seed(42) at the head of _generate_training_data *)
TrainSeed ==
    /\ trainer.pos = "idle"
    /\ np_random' = np_random_seed(42)
    /\ trainer' = [pos |-> "sampling", draws |-> 0]
    /\ UNCHANGED job_vars
    /\ UNCHANGED scorer_vars
    /\ UNCHANGED <<deal, derived, pro_forma, first_pro_forma, sensitivity, monte_carlo,
                   first_monte_carlo, simulator, run, alone, pc>>

(* The other thread: one np.random call of the sample loop *)
TrainDraw ==
    /\ trainer.pos = "sampling"
    /\ trainer.draws < MaxTrainDraws
    /\ np_random' = np_random_advance(np_random)
    /\ trainer' = [trainer EXCEPT !.draws = @ + 1]
    /\ UNCHANGED job_vars
    /\ UNCHANGED scorer_vars
    /\ UNCHANGED <<deal, derived, pro_forma, first_pro_forma, sensitivity, monte_carlo,
                   first_monte_carlo, simulator, run, alone, pc>>

ConcNext ==
    \/ RunSeed
    \/ RunDraw
    \/ RunFinish
    \/ TrainSeed
    \/ TrainDraw

SpecConc == ConcInit /\ [][ConcNext]_vars

----------------------------------------------------------------------------
(* app.py: the signals of an analysis and the recommendation made from them.  *)
(* A dict is a function from its keys; None and the empty dict are both <<>>. *)
(* Rates and ratios are in basis points, avg_predicted_growth in hundredths   *)
(* of a percent.  A signal-list entry is the pair (source, signal); the text  *)
(* shown next to it is left out.                                              *)

(* d.get(key, default) *)
dict_get(d, key, default) == IF DOMAIN d # {} /\ key \in DOMAIN d THEN d[key] ELSE default

(* "x and not x.get('error')": x is a non-empty dict without a non-empty error *)
usable(x) == DOMAIN x # {} /\ dict_get(x, "error", "") = ""

(* d[key] = value *)
dict_set(d, key, value) ==
    [k \in (IF DOMAIN d = {} THEN {} ELSE DOMAIN d) \cup {key} |->
        IF k = key THEN value ELSE d[k]]

(* signals.append((source, signal, ...)); score += points *)
add_signal(st, source, signal, points) ==
    [score |-> st.score + points, signals |-> Append(st.signals, <<source, signal>>)]

(* "1. IRR signal (primary)" *)
irr_signal(st, irr) ==
    IF irr = None THEN st
    ELSE IF irr[1] >= 1500 THEN add_signal(st, "IRR", "STRONG BUY", 2)
    ELSE IF irr[1] >= 1200 THEN add_signal(st, "IRR", "BUY", 1)
    ELSE IF irr[1] >= 800 THEN add_signal(st, "IRR", "HOLD", 0)
    ELSE add_signal(st, "IRR", "PASS", -2)

(* A faulty dscr_signal: a DSCR of zero, reported for a deal without debt *)
(* service, is not scored                                                 *)
dscr_signal_sparing_zero(st, dscr) ==
    IF dscr = 0 THEN st
    ELSE IF dscr < BPS THEN add_signal(st, "DSCR", "WARNING", -2)
    ELSE IF dscr < 12500 THEN add_signal(st, "DSCR", "CAUTION", -1)
    ELSE st

(* "2. DSCR signal" *)
dscr_signal(st, dscr) ==
    IF dscr < BPS THEN add_signal(st, "DSCR", "WARNING", -2)
    ELSE IF dscr < 12500 THEN add_signal(st, "DSCR", "CAUTION", -1)
    ELSE st

(* "3. ML valuation signal" *)
ml_valuation_signal(st, valuation) ==
    IF ~usable(valuation) THEN st
    ELSE LET assessment == dict_get(valuation, "assessment", "")
         IN  IF assessment = "UNDERVALUED" THEN add_signal(st, "ML Valuation", "BUY", 1)
             ELSE IF assessment = "OVERVALUED"
             THEN add_signal(st, "ML Valuation", "CAUTION", -1)
             ELSE add_signal(st, "ML Valuation", "NEUTRAL", 0)

(* A faulty lease_analysis_signal: one point is taken when the risk flags and *)
(* the comparison flags together are more than three                          *)
lease_analysis_signal_counting(st, analysis) ==
    IF ~usable(analysis) THEN st
    ELSE LET risk_flags == dict_get(analysis, "risk_flags", <<>>)
             comparison == dict_get(analysis, "input_comparison", <<>>)
             comp_flags == dict_get(comparison, "flags", <<>>)
         IN  IF Len(risk_flags) + Len(comp_flags) > 3
             THEN add_signal(st, "Lease Analysis", "WARNING", -1)
             ELSE st

(* "4. Lease analysis signal" *)
lease_analysis_signal(st, analysis) ==
    IF ~usable(analysis) THEN st
    ELSE LET risk_flags == dict_get(analysis, "risk_flags", <<>>)
             comparison == dict_get(analysis, "input_comparison", <<>>)
             comp_flags == dict_get(comparison, "flags", <<>>)
             flagged == IF comp_flags # <<>>
                        THEN add_signal(st, "Lease Analysis", "WARNING", -1)
                        ELSE st
         IN  IF Len(risk_flags) > 3 THEN add_signal(flagged, "Lease Risk", "CAUTION", -1)
             ELSE flagged

(* "5. Rent prediction signal" *)
rent_prediction_signal(st, prediction) ==
    IF ~usable(prediction) THEN st
    ELSE LET avg_growth == dict_get(prediction, "avg_predicted_growth", 0)
         IN  IF avg_growth > 400 THEN add_signal(st, "Rent Forecast", "POSITIVE", 1)
             ELSE IF avg_growth < 100 THEN add_signal(st, "Rent Forecast", "CAUTION", -1)
             ELSE st

(* "6. Monte Carlo signal" *)
monte_carlo_signal(st, simulation) ==
    IF ~usable(simulation) THEN st
    ELSE LET signal == dict_get(simulation, "mc_signal", "NEUTRAL")
         IN  IF signal = "POSITIVE" THEN add_signal(st, "Monte Carlo", "POSITIVE", 1)
             ELSE IF signal = "WARNING" THEN add_signal(st, "Monte Carlo", "WARNING", -1)
             ELSE add_signal(st, "Monte Carlo", "NEUTRAL", 0)

(* A faulty final_recommendation: a score of 0 is a PASS *)
final_recommendation_strict(score) ==
    IF score >= 2 THEN "STRONG BUY"
    ELSE IF score >= 1 THEN "BUY"
    ELSE IF score > 0 THEN "HOLD / CONDITIONAL"
    ELSE "PASS"

(* "Final recommendation" *)
final_recommendation(score) ==
    IF score >= 2 THEN "STRONG BUY"
    ELSE IF score >= 1 THEN "BUY"
    ELSE IF score >= 0 THEN "HOLD / CONDITIONAL"
    ELSE "PASS"

(* The returned dict *)
recommendation_of(st, m) ==
    [ recommendation       |-> final_recommendation(st.score),
      score                |-> st.score,
      signals              |-> st.signals,
      used_variable_growth |-> dict_get(m, "used_variable_growth", FALSE) ]

(* A faulty build_recommendation: the DSCR is looked at before the IRR *)
build_recommendation_dscr_first(result, valuation, analysis, prediction, simulation) ==
    LET m == result.metrics
        s1 == dscr_signal([score |-> 0, signals |-> <<>>], dict_get(m, "dscr_yr1", 0))
        s2 == irr_signal(s1, dict_get(m, "levered_irr", None))
        s3 == ml_valuation_signal(s2, valuation)
        s4 == lease_analysis_signal(s3, analysis)
        s5 == rent_prediction_signal(s4, prediction)
        s6 == monte_carlo_signal(s5, simulation)
    IN  recommendation_of(s6, m)

(* _build_recommendation(pro_forma, ml_valuation, lease_analysis, rent_prediction, *)
(* monte_carlo)                                                                    *)
build_recommendation(result, valuation, analysis, prediction, simulation) ==
    LET m == result.metrics
        s1 == irr_signal([score |-> 0, signals |-> <<>>], dict_get(m, "levered_irr", None))
        s2 == dscr_signal(s1, dict_get(m, "dscr_yr1", 0))
        s3 == ml_valuation_signal(s2, valuation)
        s4 == lease_analysis_signal(s3, analysis)
        s5 == rent_prediction_signal(s4, prediction)
        s6 == monte_carlo_signal(s5, simulation)
    IN  recommendation_of(s6, m)

(* _compare_lease_to_inputs(lease_data, deal): the flags of the comparison; the *)
(* amounts echoed next to them are left out.  A rent of 0 stands for None.      *)
compare_lease_to_inputs(lease_data, d) ==
    IF "individual_leases" \in DOMAIN lease_data
    THEN LET total_monthly == dict_get(dict_get(lease_data, "portfolio_summary", <<>>),
                                       "total_monthly_rent", 0)
             expected_total == d.in_place_rent * d.total_units
         IN  [ flags |-> IF /\ total_monthly # 0 /\ d.in_place_rent > 0 /\ d.total_units > 0
                            /\ Abs(total_monthly - expected_total) * 10 > expected_total
                         THEN <<"portfolio rent">> ELSE <<>> ]
    ELSE LET lease_rent == dict_get(lease_data, "monthly_rent", 0)
             escalation == dict_get(lease_data, "annual_escalation_pct", 0)
             rent_flag == IF /\ lease_rent # 0 /\ d.in_place_rent > 0
                             /\ Abs(lease_rent - d.in_place_rent) * 10 > d.in_place_rent
                          THEN <<"lease rent">> ELSE <<>>
             growth_flag == IF /\ escalation # 0 /\ d.revenue_growth_rate > 0
                               /\ Abs(escalation - d.revenue_growth_rate) > 100
                            THEN <<"lease escalation">> ELSE <<>>
         IN  [ flags |-> rent_flag \o growth_flag ]

(* RentPredictor.predict: avg_growth = round(sum(predicted_rates) / len(...), 2), *)
(* from rates in tenths of a percent to hundredths of a percent                   *)
avg_growth(predicted_rates) == round_div(sum_from(predicted_rates, 1) * 10, Len(predicted_rates))

----------------------------------------------------------------------------
(* _run_analysis from the rent prediction to the recommendation.  What the    *)
(* predictor, the valuation model, the lease analyzer and the simulator       *)
(* return is given by the environment; the sensitivity tables, which the      *)
(* recommendation does not read, are left out.                                *)

(* The deals of this specification, chosen for their levered IRR and year-1   *)
(* DSCR: above 15% with ample, thin and failing coverage, 12-15% without      *)
(* debt, 8-12%, below 8%, no IRR at all, one for which the build raises, and  *)
(* one whose loan bears no interest                                           *)
ScorerDeals ==
    { BaseDeal,
      Override(BaseDeal, [ltv |-> 0]),
      Override(BaseDeal, [interest_rate |-> 0]),
      Override(BaseDeal, [ltv |-> 7500]),
      Override(BaseDeal, [ltv |-> 10550]),
      Override(BaseDeal, [market_rent |-> 13 * MIL, revenue_growth_rate |-> 0,
                          exit_cap_rate_spread |-> 300]),
      Override(BaseDeal, [market_rent |-> 13 * MIL, revenue_growth_rate |-> 0,
                          ltv |-> 7500]),
      Override(BaseDeal, [current_noi |-> -300 * MIL]),
      Override(BaseDeal, [hold_period_years |-> -11]) }

(* str(e) of the exception a collaborator raised: a message, or nothing *)
ErrorMessages == {"Model not trained", ""}

ErrorMarkers == { [error |-> msg] : msg \in ErrorMessages }

(* Predicted yearly growth, in tenths of a percent *)
GrowthLevels == {5, 10, 40, 50}

(* What RentPredictor.predict returns for a hold period: one rate per year *)
Forecast(level, hold_period) ==
    LET predicted_rates == [y \in 1..hold_period |-> level]
    IN  [ predicted_rates      |-> predicted_rates,
          avg_predicted_growth |-> avg_growth(predicted_rates) ]

(* None when the prediction is not enabled *)
RentPredictions(d) ==
    {None} \cup ErrorMarkers
           \cup (IF d.hold_period_years > 0
                 THEN { Forecast(level, d.hold_period_years) : level \in GrowthLevels }
                 ELSE {})

(* None when the valuation is not enabled *)
Valuations ==
    {None} \cup ErrorMarkers
           \cup { [assessment |-> a, premium_discount_pct |-> p] :
                      a \in {"UNDERVALUED", "OVERVALUED", "FAIR VALUE"}, p \in {0} }

(* n risk flags *)
RiskFlags(n) == [i \in 1..n |-> "risk"]

(* What analyze_lease returns for one lease document; rents in mils, the *)
(* escalation in hundredths of a percent                                 *)
SingleLeases ==
    { [risk_flags |-> RiskFlags(n), monthly_rent |-> rent, annual_escalation_pct |-> esc] :
          n \in {0, 3, 4},
          rent \in {13 * MIL, 20 * MIL},
          esc \in {300, 600} }

(* What analyze_multiple_leases returns for two documents *)
LeasePortfolios ==
    { [ individual_leases |-> <<"a", "b">>,
        portfolio_summary |-> [total_monthly_rent |-> total],
        risk_flags        |-> RiskFlags(n) ] :
          total \in {26 * MIL, 40 * MIL}, n \in {2, 5} }

(* None when the deal has no lease documents *)
LeaseAnalyses == {None} \cup ErrorMarkers \cup SingleLeases \cup LeasePortfolios

(* What MonteCarloSimulator.run returns: a distribution with its signal, or an *)
(* error marker                                                                *)
Simulations ==
    ErrorMarkers \cup { [error |-> "Too few valid simulations"] }
                 \cup { [mc_signal |-> s, mc_detail |-> ""] :
                            s \in {"POSITIVE", "MODERATE", "WARNING", "NEUTRAL"} }

AnalysisInit ==
    /\ deal \in ScorerDeals
    /\ derived = None
    /\ pro_forma = None
    /\ first_pro_forma = None
    /\ sensitivity = None
    /\ monte_carlo = None
    /\ first_monte_carlo = None
    /\ simulator = None
    /\ np_random = 0
    /\ run = None
    /\ trainer = Idle
    /\ alone = None
    /\ rent_prediction = None
    /\ ml_valuation = None
    /\ lease_analysis = None
    /\ recommendation = None
    /\ jobs = <<>>
    /\ threads = <<>>
    /\ response = None
    /\ pc = "predicting_rents"

(* "Rent Prediction BEFORE pro forma": the predicted rates go into the deal *)
PredictRents(outcome) ==
    /\ pc = "predicting_rents"
    /\ rent_prediction' = outcome
    /\ deal' = IF usable(outcome) /\ dict_get(outcome, "predicted_rates", <<>>) # <<>>
               THEN [deal EXCEPT !.yearly_revenue_growth = outcome.predicted_rates]
               ELSE deal
    /\ pc' = "modeling"
    /\ UNCHANGED job_vars
    /\ UNCHANGED <<derived, pro_forma, first_pro_forma, sensitivity, monte_carlo,
                   first_monte_carlo, simulator, np_random, run, trainer, alone,
                   ml_valuation, lease_analysis, recommendation>>

(* pro_forma = build_pro_forma(deal); an exception ends the analysis *)
Modeling ==
    /\ pc = "modeling"
    /\ pro_forma' = build_pro_forma(deal)
    /\ pc' = IF pro_forma'.raised THEN "error" ELSE "ml_valuation"
    /\ UNCHANGED job_vars
    /\ UNCHANGED scorer_vars
    /\ UNCHANGED <<deal, derived, first_pro_forma, sensitivity, monte_carlo,
                   first_monte_carlo, simulator, np_random, run, trainer, alone>>

(* "ML Valuation (optional)" *)
MLValuation(outcome) ==
    /\ pc = "ml_valuation"
    /\ ml_valuation' = outcome
    /\ pc' = "analyzing_lease"
    /\ UNCHANGED job_vars
    /\ UNCHANGED <<deal, derived, pro_forma, first_pro_forma, sensitivity, monte_carlo,
                   first_monte_carlo, simulator, np_random, run, trainer, alone,
                   rent_prediction, lease_analysis, recommendation>>

(* "Lease Analysis": a usable analysis is compared with the deal's inputs *)
AnalyzeLease(outcome) ==
    /\ pc = "analyzing_lease"
    /\ lease_analysis' = IF usable(outcome)
                         THEN dict_set(outcome, "input_comparison",
                                       compare_lease_to_inputs(outcome, deal))
                         ELSE outcome
    /\ pc' = "monte_carlo"
    /\ UNCHANGED job_vars
    /\ UNCHANGED <<deal, derived, pro_forma, first_pro_forma, sensitivity, monte_carlo,
                   first_monte_carlo, simulator, np_random, run, trainer, alone,
                   rent_prediction, ml_valuation, recommendation>>

(* "Monte Carlo Simulation" *)
MonteCarlo(outcome) ==
    /\ pc = "monte_carlo"
    /\ monte_carlo' = outcome
    /\ pc' = "recommending"
    /\ UNCHANGED job_vars
    /\ UNCHANGED scorer_vars
    /\ UNCHANGED <<deal, derived, pro_forma, first_pro_forma, sensitivity,
                   first_monte_carlo, simulator, np_random, run, trainer, alone>>

(* "Integrated Recommendation" *)
Recommend ==
    /\ pc = "recommending"
    /\ recommendation' = build_recommendation(pro_forma, ml_valuation, lease_analysis,
                                              rent_prediction, monte_carlo)
    /\ pc' = "generating_excel"
    /\ UNCHANGED job_vars
    /\ UNCHANGED <<deal, derived, pro_forma, first_pro_forma, sensitivity, monte_carlo,
                   first_monte_carlo, simulator, np_random, run, trainer, alone,
                   rent_prediction, ml_valuation, lease_analysis>>

AnalysisNext ==
    \/ \E outcome \in RentPredictions(deal) : PredictRents(outcome)
    \/ Modeling
    \/ \E outcome \in Valuations : MLValuation(outcome)
    \/ \E outcome \in LeaseAnalyses : AnalyzeLease(outcome)
    \/ \E outcome \in Simulations : MonteCarlo(outcome)
    \/ Recommend

SpecAnalysis == AnalysisInit /\ [][AnalysisNext]_vars

----------------------------------------------------------------------------
(* The loop of MonteCarloSimulator.run, one np.random call at a time, on deals *)
(* whose values lie at and beyond the ends of the clamps                       *)

(* Predicted rates with an occupancy and an exit spread near their upper and   *)
(* lower ends; shrinking rents and costs with an occupancy near the floor; an  *)
(* occupancy below the floor with a negative exit spread; a full occupancy;    *)
(* one bought without debt at a price that puts its simulated returns on both  *)
(* sides of the upper end of the validity band; and the base deal              *)
PerturbDeals ==
    { Override(BaseDeal, [ yearly_revenue_growth |-> <<50, 40, 30>>, occupancy |-> 9800,
                           exit_cap_rate_spread |-> 20 ]),
      Override(BaseDeal, [ occupancy |-> 6100, revenue_growth_rate |-> -200,
                           expense_growth_rate |-> -100 ]),
      Override(BaseDeal, [ occupancy |-> 5000, exit_cap_rate_spread |-> -100 ]),
      Override(BaseDeal, [ occupancy |-> BPS, expense_growth_rate |-> 0 ]),
      Override(BaseDeal, [ ltv |-> 0, purchase_price |-> 594 * (MIL \div 10) ]),
      BaseDeal }

(* The lengths of the runs of this specification *)
PerturbIterations == {10, 12}

PerturbInit ==
    /\ deal \in PerturbDeals
    /\ derived = None
    /\ pro_forma = None
    /\ first_pro_forma = None
    /\ sensitivity = None
    /\ monte_carlo = None
    /\ first_monte_carlo = None
    /\ simulator \in { [n_iterations |-> n, seed |-> seed] :
                          n \in PerturbIterations, seed \in Seeds }
    /\ np_random = 0
    /\ run = None
    /\ trainer = Idle
    /\ alone = None
    /\ rent_prediction = None
    /\ ml_valuation = None
    /\ lease_analysis = None
    /\ recommendation = None
    /\ jobs = <<>>
    /\ threads = <<>>
    /\ response = None
    /\ pc = "pending"

PerturbNext ==
    \/ RunSeed
    \/ RunDraw
    \/ RunFinish

SpecPerturb == PerturbInit /\ [][PerturbNext]_vars

----------------------------------------------------------------------------
(* The projection: one build of a deal, then either a build of the same deal   *)
(* with its hold period or its revenue growth changed, or the sensitivity      *)
(* tables of the deal                                                          *)

(* Predicted rates for eleven years: 2.0% in each of the ten projected years,  *)
(* 7.0% in the year after them                                                 *)
LongForecast == <<20, 20, 20, 20, 20, 20, 20, 20, 20, 20, 70>>

(* Occupancies below, at and above the stabilized level, with and without      *)
(* capex; an expense growth of zero and a negative one; a loan that matures    *)
(* before the sale, one with interest-only years, one without interest and no  *)
(* loan at all; a negative exit cap rate; rents at market; predicted rates     *)
(* that reach past a ten-year hold; an interest rate and a revenue growth      *)
(* within the reach of the sensitivity tables' floors; an income that makes    *)
(* the exit cap rate smaller than the tables' steps; and the base deal         *)
ProjectDeals ==
    { BaseDeal,
      Override(BaseDeal, [ occupancy |-> 9400 ]),
      Override(BaseDeal, [ occupancy |-> 8000, expense_growth_rate |-> 0 ]),
      Override(BaseDeal, [ occupancy |-> 9500 ]),
      Override(BaseDeal, [ occupancy |-> 9800, expense_growth_rate |-> -200 ]),
      Override(BaseDeal, [ planned_capex |-> 0 ]),
      Override(BaseDeal, [ loan_term_years |-> 5 ]),
      Override(BaseDeal, [ loan_term_years |-> 5, io_period_years |-> 5 ]),
      Override(BaseDeal, [ io_period_years |-> 2, amortization_years |-> 30 ]),
      Override(BaseDeal, [ interest_rate |-> 0 ]),
      Override(BaseDeal, [ ltv |-> 0 ]),
      Override(BaseDeal, [ exit_cap_rate_spread |-> -1200 ]),
      Override(BaseDeal, [ market_rent |-> 13 * MIL, expense_growth_rate |-> 500 ]),
      Override(BaseDeal, [ yearly_revenue_growth |-> LongForecast,
                           hold_period_years |-> 10 ]),
      Override(BaseDeal, [ interest_rate |-> 200, revenue_growth_rate |-> 100 ]),
      Override(BaseDeal, [ current_noi |-> 10 * MIL ]) }

(* Hold periods from a negative one to one beyond the projection *)
HoldChanges == { [hold_period_years |-> h] : h \in {-3, 0, 1, 2, 3, 10, 12} }

(* Revenue growth: another flat rate, predicted rates for three years, and      *)
(* predicted rates that reach past the projection                               *)
GrowthChanges ==
    { [ revenue_growth_rate |-> 500 ],
      [ yearly_revenue_growth |-> <<50, 40, 30>> ],
      [ yearly_revenue_growth |-> LongForecast ] }

ProjectInit ==
    /\ deal \in ProjectDeals
    /\ derived = None
    /\ pro_forma = None
    /\ first_pro_forma = None
    /\ sensitivity = None
    /\ monte_carlo = None
    /\ first_monte_carlo = None
    /\ simulator = None
    /\ np_random = 0
    /\ run = None
    /\ trainer = Idle
    /\ alone = None
    /\ rent_prediction = None
    /\ ml_valuation = None
    /\ lease_analysis = None
    /\ recommendation = None
    /\ jobs = <<>>
    /\ threads = <<>>
    /\ response = None
    /\ pc = "input"

(* build_pro_forma on a deal that differs from the first one in `change` *)
BuildChanged(change) ==
    /\ pc = "built"
    /\ deal' = Override(deal, change)
    /\ pro_forma' = build_pro_forma(deal')
    /\ pc' = "rebuilt"
    /\ UNCHANGED job_vars
    /\ UNCHANGED scorer_vars
    /\ UNCHANGED <<derived, first_pro_forma, sensitivity, monte_carlo, first_monte_carlo,
                   simulator, np_random, run, trainer, alone>>

ProjectNext ==
    \/ BuildProForma
    \/ \E change \in HoldChanges \cup GrowthChanges : BuildChanged(change)
    \/ BuildSensitivity

SpecProject == ProjectInit /\ [][ProjectNext]_vars

----------------------------------------------------------------------------
(* app.py: the jobs of the web application *)

(* d.update(other) *)
dict_update(d, other) ==
    [k \in DOMAIN d \cup DOMAIN other |-> IF k \in DOMAIN other THEN other[k] ELSE d[k]]

(* analyze(): a form that passes the three checks makes a job under a fresh id, *)
(* any other is answered with 400 and makes none                                *)
analyze(all_jobs, job_id, form) ==
    IF form.purchase_price <= 0 \/ form.total_units <= 0 \/ form.in_place_rent <= 0
    THEN all_jobs
    ELSE [k \in DOMAIN all_jobs \cup {job_id} |->
              IF k = job_id THEN [status |-> "pending", deal |-> form] ELSE all_jobs[k]]

(* "except Exception as e" of _run_analysis: the job is marked and the thread ends *)
run_analysis_except(job) ==
    [ job |-> dict_update(job, [status |-> "error", message |-> "str(e)"]),
      pos |-> "done" ]

(* The thread goes on to the stage `stage` *)
run_analysis_enter(job, stage) ==
    [ job |-> dict_update(job, [status |-> stage]), pos |-> stage ]

(* The stages after the build, each entered if the deal asks for it *)
run_analysis_after_modeling(job) ==
    IF job.deal.enable_ml_valuation THEN run_analysis_enter(job, "ml_valuation")
    ELSE IF job.deal.lease_pdf_paths > 0 THEN run_analysis_enter(job, "analyzing_lease")
    ELSE run_analysis_enter(job, "sensitivity")

(* A faulty run_analysis_complete: the status is set, the results are not *)
run_analysis_complete_status_only(job) ==
    [ job |-> dict_update(job, [status |-> "complete"]), pos |-> "done" ]

(* jobs[job_id].update({"status": "complete", ...}) *)
run_analysis_complete(job) ==
    [ job |-> dict_update(job, [ status         |-> "complete",
                                 results        |-> "pro_forma",
                                 recommendation |-> "recommendation",
                                 excel_path     |-> "excel_path",
                                 word_path      |-> "word_path",
                                 pdf_path       |-> "pdf_path",
                                 deal           |-> job.deal ]),
      pos |-> "done" ]

(* _run_analysis from position pos to the next: the call made at pos returns   *)
(* or raises.  The exceptions of the rent predictor, the backtest, the         *)
(* valuation model, the lease analyzer and the simulator are caught where they *)
(* are raised, all others by the handler at the end of the function.           *)
run_analysis_step(job, pos, raises) ==
    IF pos = "pending"
    THEN IF raises THEN run_analysis_except(job)
         ELSE run_analysis_enter(job, "researching")
    ELSE IF pos = "researching"
    THEN IF raises THEN run_analysis_except(job)
         ELSE IF job.deal.enable_rent_prediction
         THEN run_analysis_enter(job, "predicting_rents")
         ELSE run_analysis_enter(job, "modeling")
    ELSE IF pos = "predicting_rents"
    THEN IF raises THEN run_analysis_enter(job, "modeling")
         ELSE run_analysis_enter(job, "backtesting")
    ELSE IF pos = "backtesting" THEN run_analysis_enter(job, "modeling")
    ELSE IF pos = "modeling"
    THEN IF raises THEN run_analysis_except(job)
         ELSE run_analysis_after_modeling(job)
    ELSE IF pos = "ml_valuation"
    THEN IF job.deal.lease_pdf_paths > 0 THEN run_analysis_enter(job, "analyzing_lease")
         ELSE run_analysis_enter(job, "sensitivity")
    ELSE IF pos = "analyzing_lease" THEN run_analysis_enter(job, "sensitivity")
    ELSE IF pos = "sensitivity"
    THEN IF raises THEN run_analysis_except(job)
         ELSE run_analysis_enter(job, "monte_carlo")
    ELSE IF pos = "monte_carlo" THEN [job |-> job, pos |-> "recommendation"]
    ELSE IF pos = "recommendation"
    THEN IF raises THEN run_analysis_except(job)
         ELSE run_analysis_enter(job, "generating_excel")
    ELSE IF pos = "generating_excel"
    THEN IF raises THEN run_analysis_except(job)
         ELSE run_analysis_enter(job, "generating_word")
    ELSE IF pos = "generating_word"
    THEN IF raises THEN run_analysis_except(job)
         ELSE run_analysis_enter(job, "generating_pdf")
    ELSE IF raises THEN run_analysis_except(job)
         ELSE run_analysis_complete(job)

(* status(job_id): the reply *)
status(all_jobs, job_id) ==
    IF DOMAIN all_jobs = {} \/ job_id \notin DOMAIN all_jobs
    THEN [code |-> 404, status |-> "not_found"]
    ELSE IF all_jobs[job_id].status = "error"
    THEN [code |-> 200, status |-> "error",
          message |-> dict_get(all_jobs[job_id], "message", "Unknown error")]
    ELSE [code |-> 200, status |-> all_jobs[job_id].status]

----------------------------------------------------------------------------
(* The web application: forms are posted, each accepted one starts a thread, *)
(* and the status of a job is asked for at any time                          *)

(* Job ids, as uuid4 gives them: no two calls get the same *)
JobIds == {"3f2a", "9c41"}

(* The forms posted: with and without the optional stages, and one that *)
(* analyze() rejects                                                    *)
JobForms ==
    { [ purchase_price |-> 2000 * MIL, total_units |-> 2, in_place_rent |-> 13 * MIL,
        enable_rent_prediction |-> FALSE, enable_ml_valuation |-> FALSE,
        lease_pdf_paths |-> 0 ],
      [ purchase_price |-> 2000 * MIL, total_units |-> 2, in_place_rent |-> 13 * MIL,
        enable_rent_prediction |-> TRUE, enable_ml_valuation |-> FALSE,
        lease_pdf_paths |-> 2 ],
      [ purchase_price |-> 2000 * MIL, total_units |-> 2, in_place_rent |-> 13 * MIL,
        enable_rent_prediction |-> TRUE, enable_ml_valuation |-> TRUE,
        lease_pdf_paths |-> 0 ],
      [ purchase_price |-> 0, total_units |-> 2, in_place_rent |-> 13 * MIL,
        enable_rent_prediction |-> FALSE, enable_ml_valuation |-> FALSE,
        lease_pdf_paths |-> 0 ] }

JobInit ==
    /\ deal = BaseDeal
    /\ derived = None
    /\ pro_forma = None
    /\ first_pro_forma = None
    /\ sensitivity = None
    /\ monte_carlo = None
    /\ first_monte_carlo = None
    /\ simulator = None
    /\ np_random = 0
    /\ run = None
    /\ trainer = Idle
    /\ alone = None
    /\ rent_prediction = None
    /\ ml_valuation = None
    /\ lease_analysis = None
    /\ recommendation = None
    /\ jobs = <<>>
    /\ threads = <<>>
    /\ response = None
    /\ pc = "serving"

job_others == <<deal, derived, pro_forma, first_pro_forma, sensitivity, monte_carlo,
                first_monte_carlo, simulator, np_random, run, trainer, alone, pc>>

(* POST /api/analyze *)
Analyze(job_id, form) ==
    /\ DOMAIN jobs = {} \/ job_id \notin DOMAIN jobs
    /\ jobs' = analyze(jobs, job_id, form)
    /\ threads' = IF jobs' = jobs THEN threads
                  ELSE [k \in DOMAIN jobs' |-> IF k = job_id THEN "pending" ELSE threads[k]]
    /\ response' = IF jobs' = jobs THEN [code |-> 400] ELSE [code |-> 200, job_id |-> job_id]
    /\ UNCHANGED scorer_vars
    /\ UNCHANGED job_others

(* The thread of a job makes its next call, which returns or raises *)
RunAnalysis(job_id, raises) ==
    /\ DOMAIN jobs # {}
    /\ job_id \in DOMAIN jobs
    /\ threads[job_id] # "done"
    /\ \E next \in {run_analysis_step(jobs[job_id], threads[job_id], raises)} :
           /\ jobs' = [jobs EXCEPT ![job_id] = next.job]
           /\ threads' = [threads EXCEPT ![job_id] = next.pos]
    /\ UNCHANGED response
    /\ UNCHANGED scorer_vars
    /\ UNCHANGED job_others

(* GET /api/status/<job_id> *)
Status(job_id) ==
    /\ response' = status(jobs, job_id)
    /\ UNCHANGED <<jobs, threads>>
    /\ UNCHANGED scorer_vars
    /\ UNCHANGED job_others

(* One step of the thread of a job *)
ThreadStep(job_id) == \E raises \in BOOLEAN : RunAnalysis(job_id, raises)

JobNext ==
    \/ \E job_id \in JobIds, form \in JobForms : Analyze(job_id, form)
    \/ \E job_id \in JobIds : ThreadStep(job_id)
    \/ \E job_id \in JobIds : Status(job_id)

(* Every thread that has a call to make gets to make it *)
SpecJob ==
    /\ JobInit
    /\ [][JobNext]_vars
    /\ \A job_id \in JobIds : WF_vars(ThreadStep(job_id))

----------------------------------------------------------------------------
(* Properties of derive_assumptions, checked under SpecDerive *)

(* The six derived expense categories of a DerivedAssumptions *)
SixCategories(dv) ==
    <<dv.property_tax, dv.insurance, dv.utilities, dv.repairs_maintenance,
      dv.general_admin, dv.other_expenses>>

PositiveInputs(d) == d.purchase_price > 0 /\ d.total_units > 0 /\ d.in_place_rent > 0

(* The management fee that the breakdown sets aside before it splits the rest: *)
(* none when the fee alone exceeds the total                                   *)
FeeSetAside(d, dv) ==
    LET mgmt == Frac(dv.effective_gross_income, d.management_fee_pct)
    IN  IF dv.total_operating_expenses - mgmt < 0 THEN 0 ELSE mgmt

(* C1 as stated: for positive price, units and rent, the six derived expense   *)
(* categories are each non-negative and sum to total_operating_expenses, up to *)
(* one mil of rounding per category.                                           *)
C1_SixSumToTotal ==
    (pc = "derived" /\ PositiveInputs(deal)) =>
        /\ \A k \in 1..6 : SixCategories(derived)[k] >= 0
        /\ Abs(sum_from(SixCategories(derived), 1) - derived.total_operating_expenses) <= 6

(* C1 amended: for positive price, units and rent, the six derived expense     *)
(* categories are each non-negative and, together with the management fee set  *)
(* aside (effective gross income times management_fee_pct, or nothing when     *)
(* that exceeds the total), sum to total_operating_expenses, up to one mil of  *)
(* rounding per category.                                                      *)
C1_SixAndFeeSumToTotal ==
    (pc = "derived" /\ PositiveInputs(deal)) =>
        /\ \A k \in 1..6 : SixCategories(derived)[k] >= 0
        /\ Abs(sum_from(SixCategories(derived), 1) + FeeSetAside(deal, derived)
               - derived.total_operating_expenses) <= 6

(* A derivation with a positive fee set aside and positive categories *)
C1_Witness ==
    /\ pc = "derived"
    /\ PositiveInputs(deal)
    /\ FeeSetAside(deal, derived) > CENT
    /\ derived.property_tax > 0
    /\ derived.other_expenses > 0

----------------------------------------------------------------------------
(* Properties of build_pro_forma, checked under SpecBuild *)

Built == pc \in {"built", "rebuilt", "tabulated"} /\ ~pro_forma.raised

(* The expense lines of a pro-forma row *)
ExpenseLines(row) ==
    <<row.management_fee, row.property_tax, row.insurance, row.utilities,
      row.repairs_maintenance, row.general_admin, row.other_expenses,
      row.replacement_reserves>>

(* C2 as stated: in each of the 10 rows NOI equals effective gross income minus *)
(* total expenses, total expenses equal the sum of the row's expense lines, and *)
(* before-tax cash flow equals NOI minus the year's debt service.               *)
C2_RowIdentities ==
    Built =>
        \A y \in 1..years :
            LET row == pro_forma.pro_forma[y]
            IN  /\ row.noi = row.effective_gross_income - row.total_expenses
                /\ row.total_expenses = sum_from(ExpenseLines(row), 1)
                /\ row.btcf = row.noi - row.debt_service

(* C2 amended: the identities hold up to the rounding of the row: every figure  *)
(* is rounded to cents on its own, so NOI is within one cent of effective gross *)
(* income minus total expenses, before-tax cash flow within one cent of NOI     *)
(* minus debt service, and total expenses within four cents of the sum of the   *)
(* eight expense lines.                                                         *)
C2_RowIdentitiesToTheCent ==
    Built =>
        \A y \in 1..years :
            LET row == pro_forma.pro_forma[y]
            IN  /\ Abs(row.noi - (row.effective_gross_income - row.total_expenses)) <= CENT
                /\ Abs(row.total_expenses - sum_from(ExpenseLines(row), 1)) <= 4 * CENT
                /\ Abs(row.btcf - (row.noi - row.debt_service)) <= CENT

(* A build with debt service whose rows are off by a cent somewhere *)
C2_Witness ==
    /\ Built
    /\ pro_forma.pro_forma[1].debt_service > 0
    /\ \E y \in 1..years :
           pro_forma.pro_forma[y].noi # pro_forma.pro_forma[y].effective_gross_income
                                        - pro_forma.pro_forma[y].total_expenses

(* The inputs C7 names: a plausible deal (a hold period of at least one year)   *)
(* in which a denominator is zero or the cash flows have one sign               *)
OneSign(cfs) == (\A t \in 1..Len(cfs) : cfs[t] >= 0) \/ (\A t \in 1..Len(cfs) : cfs[t] <= 0)

Degenerate(d) ==
    LET dv == derive_assumptions(d)
    IN  /\ d.hold_period_years >= 1
        /\ \/ dv.loan_amount = 0
           \/ d.interest_rate = 0
           \/ dv.equity_required = 0
           \/ d.purchase_price = 0
           \/ dv.total_project_cost = 0
           \/ d.current_noi < 0

(* C7: build_pro_forma does not raise for a degenerate but plausible deal; each *)
(* ratio whose denominator is zero is 0 (going-in cap rate for a zero price,    *)
(* equity multiple and cash-on-cash for zero equity, DSCR for zero debt         *)
(* service, yield-on-cost for zero total cost), and the IRR of cash flows of    *)
(* one sign is null.                                                            *)
C7_DegenerateInputs ==
    (pc \in {"built", "rebuilt", "tabulated"} /\ Degenerate(deal)) =>
        /\ ~pro_forma.raised
        /\ LET m == pro_forma.metrics
               dv == pro_forma.inputs.derived
           IN  /\ deal.purchase_price = 0 => m.going_in_cap_rate = 0
               /\ dv.equity_required = 0 =>
                      /\ m.equity_multiple = 0 /\ m.after_tax_equity_multiple = 0
                      /\ m.cash_on_cash_yr1 = 0 /\ m.cash_on_cash_yr1_after_tax = 0
               /\ (dv.loan_amount = 0 \/ deal.interest_rate = 0) =>
                      m.dscr_yr1 = 0 /\ m.stabilized_dscr = 0
               /\ dv.total_project_cost = 0 =>
                      m.yield_on_cost = 0 /\ m.stabilized_yoc = 0
               /\ OneSign(pro_forma.levered_cash_flows) => m.levered_irr = None
               /\ OneSign(pro_forma.unlevered_cash_flows) => m.unlevered_irr = None

(* A build with no price, no cost and no equity, whose flows have one sign *)
C7_Witness ==
    /\ pc = "built"
    /\ ~pro_forma.raised
    /\ deal.purchase_price = 0
    /\ pro_forma.inputs.derived.total_project_cost = 0
    /\ pro_forma.inputs.derived.equity_required = 0
    /\ pro_forma.metrics.yield_on_cost = 0
    /\ pro_forma.metrics.levered_irr = None

(* The second build differs from the first in a strictly larger spread only *)
LargerSpread ==
    /\ pc \in {"rebuilt", "tabulated"}
    /\ ~pro_forma.raised /\ ~first_pro_forma.raised
    /\ deal.exit_cap_rate_spread > first_pro_forma.inputs.deal.exit_cap_rate_spread

(* The rows of the exit-cap table that are followed by another row *)
TableRows == IF pc = "tabulated" THEN 1..(Len(sensitivity.exit_cap) - 1) ELSE {}

(* forward NOI over a cap rate, before any rounding of the quotient *)
PriceAt(forward_noi, cap) == MulDiv(forward_noi, BPS, cap)

(* C9 as stated: a strictly larger exit_cap_rate_spread gives a strictly        *)
(* smaller sale price in the reversion, and in the exit-cap table the sale      *)
(* price strictly decreases from each emitted row to the next.                  *)
C9_StrictlyDecreasing ==
    /\ LargerSpread =>
           pro_forma.reversion.sale_price < first_pro_forma.reversion.sale_price
    /\ \A k \in TableRows :
           sensitivity.exit_cap[k + 1].sale_price < sensitivity.exit_cap[k].sale_price

(* C9 amended: when the forward NOI is positive and the exit cap rate derived   *)
(* from the smaller spread is positive (so the 6% default does not replace it), *)
(* a strictly larger spread gives a sale price that is not larger, and strictly *)
(* smaller unless the difference is lost in the rounding to cents; in the       *)
(* exit-cap table, when the forward NOI is positive, the sale price does not    *)
(* increase from each emitted row to the next, and strictly decreases unless    *)
(* the difference is lost in the rounding to whole dollars.                     *)
C9_DecreasingForPositiveNoi ==
    /\ (/\ LargerSpread
        /\ first_pro_forma.reversion.forward_noi > 0
        /\ first_pro_forma.inputs.derived.exit_cap_rate > 0) =>
           LET noi == first_pro_forma.reversion.forward_noi
               gap == PriceAt(noi, first_pro_forma.inputs.derived.exit_cap_rate)
                      - PriceAt(noi, pro_forma.inputs.derived.exit_cap_rate)
           IN  /\ pro_forma.reversion.sale_price <= first_pro_forma.reversion.sale_price
               /\ gap >= 2 * CENT =>
                      pro_forma.reversion.sale_price < first_pro_forma.reversion.sale_price
    /\ \A k \in TableRows :
           pro_forma.reversion.forward_noi > 0 =>
               LET noi == pro_forma.reversion.forward_noi
                   this == sensitivity.exit_cap[k]
                   next == sensitivity.exit_cap[k + 1]
               IN  /\ next.sale_price <= this.sale_price
                   /\ PriceAt(noi, this.exit_cap_rate) - PriceAt(noi, next.exit_cap_rate)
                          >= 2 * MIL => next.sale_price < this.sale_price

(* A second build with a larger spread and a smaller price, and the table of    *)
(* that build with all seven rows and falling prices                            *)
C9_Witness ==
    /\ LargerSpread
    /\ first_pro_forma.reversion.forward_noi > 0
    /\ first_pro_forma.inputs.derived.exit_cap_rate > 0
    /\ pro_forma.reversion.sale_price < first_pro_forma.reversion.sale_price
    /\ pc = "tabulated"
    /\ Len(sensitivity.exit_cap) = 7
    /\ sensitivity.exit_cap[7].sale_price < sensitivity.exit_cap[1].sale_price

(* The growth rate resolved for projection year y: the supplied percentage when *)
(* the list covers the year, the flat rate otherwise                            *)
ResolvedGrowth(d, y) ==
    IF Len(d.yearly_revenue_growth) > 0 /\ y <= Len(d.yearly_revenue_growth)
    THEN d.yearly_revenue_growth[y] * 10
    ELSE d.revenue_growth_rate

(* x grown by one period at `rate` *)
Grown(x, rate) == x + Frac(x, rate)

(* Rent is compounded into year y: no rent gap, or a year after the ramp *)
RentCompounds(d, y) ==
    LET market == IF d.market_rent > 0 THEN d.market_rent ELSE d.in_place_rent
    IN  y >= 2 /\ (market > d.in_place_rent => y > Min(3, d.hold_period_years))

HasRentGap(d) == d.market_rent > d.in_place_rent

(* Rent per unit is carried to the mil and annualised over every unit, so a    *)
(* year's step is compared to a tenth of a dollar: far below the step that a   *)
(* rate one percentage point off would make                                    *)
GrowthTolerance == 10 * CENT

(* C10 as stated: year y reports the growth resolved for it (the supplied rate  *)
(* for a covered year, the flat rate after the list), and the rent and the      *)
(* other income of year y are those of year y - 1 grown by that rate.           *)
C10_GrowthOfTheYear ==
    Built =>
        \A y \in 1..years :
            LET row == pro_forma.pro_forma[y]
                g == ResolvedGrowth(deal, y)
            IN  /\ row.revenue_growth_used = g
                /\ y >= 2 =>
                       Abs(row.other_income
                           - Grown(pro_forma.pro_forma[y - 1].other_income, g)) <= GrowthTolerance
                /\ RentCompounds(deal, y) =>
                       Abs(row.gross_potential_rent
                           - Grown(pro_forma.pro_forma[y - 1].gross_potential_rent, g))
                           <= GrowthTolerance

(* min(3, hold_period_years) *)
RampYears(d) == Min(3, d.hold_period_years)

(* Rent per unit of year y by the rule of the ramp: the straight line from the  *)
(* in-place rent to the market rent over the ramp, then the rent of the year    *)
(* before grown by the rate resolved for year y                                 *)
RECURSIVE RampRent(_, _)
RampRent(d, y) ==
    IF 1 <= y /\ y <= RampYears(d)
    THEN d.in_place_rent + MulDiv(d.market_rent - d.in_place_rent, y, RampYears(d))
    ELSE IF y <= RampYears(d) \/ y <= 0 THEN d.market_rent
    ELSE Grown(RampRent(d, y - 1), ResolvedGrowth(d, y))

(* rent per unit, per year over all units *)
Annualised(d, rent) == rent * d.total_units * 12

(* Every supplied rate equals the flat rate *)
SuppliedEqualFlat(d) ==
    /\ Len(d.yearly_revenue_growth) > 0
    /\ \A i \in 1..Len(d.yearly_revenue_growth) :
           d.yearly_revenue_growth[i] * 10 = d.revenue_growth_rate

(* The same deal in the flat mode *)
FlatMode(d) == [d EXCEPT !.yearly_revenue_growth = <<>>]

(* C11: with a market rent above the in-place rent, the rent of a ramp year is  *)
(* the straight line in_place + (market - in_place) * y / min(3, hold), whatever *)
(* the growth rates are; the last ramp year is at the market rent; every later  *)
(* year is the year before grown by the one rate resolved for it; and a         *)
(* supplied sequence equal to the flat rate gives the rents of the flat mode.   *)
C11_RampThenCompound ==
    (Built /\ HasRentGap(deal)) =>
        /\ \A y \in 1..years :
               LET row == pro_forma.pro_forma[y]
               IN  IF y <= RampYears(deal)
                   THEN /\ row.rent_per_unit = round0(RampRent(deal, y))
                        /\ row.gross_potential_rent
                               = round2(Annualised(deal, RampRent(deal, y)))
                        /\ y = RampYears(deal) =>
                               row.gross_potential_rent
                                   = round2(Annualised(deal, deal.market_rent))
                   ELSE /\ Abs(row.gross_potential_rent
                                - Annualised(deal, RampRent(deal, y))) <= GrowthTolerance
                        /\ Abs(row.rent_per_unit - RampRent(deal, y)) <= MIL \div 2 + CENT
        /\ SuppliedEqualFlat(deal) =>
               \A y \in 1..years :
                   /\ pro_forma.pro_forma[y].rent_per_unit
                          = build_pro_forma(FlatMode(deal)).pro_forma[y].rent_per_unit
                   /\ pro_forma.pro_forma[y].gross_potential_rent
                          = build_pro_forma(FlatMode(deal)).pro_forma[y].gross_potential_rent

(* A built deal with a rent gap and supplied rates that differ from the flat    *)
(* rate, held past its three ramp years, whose rent has grown above the market  *)
C11_Witness ==
    /\ Built /\ HasRentGap(deal)
    /\ Len(deal.yearly_revenue_growth) > 0 /\ ~SuppliedEqualFlat(deal)
    /\ RampYears(deal) = 3
    /\ pro_forma.pro_forma[3].gross_potential_rent
           = round2(Annualised(deal, deal.market_rent))
    /\ pro_forma.pro_forma[4].gross_potential_rent
           > pro_forma.pro_forma[3].gross_potential_rent

(* The balance left of `balance` after `months` payments of `payment`, interest *)
(* accruing monthly at `rate` (in millionths); the payments stop when nothing   *)
(* is owed any more                                                             *)
RECURSIVE BalanceAfter(_, _, _, _)
BalanceAfter(balance, rate, payment, months) ==
    IF months <= 0 \/ balance <= 0 THEN balance
    ELSE BalanceAfter(balance + Scale(balance, rate) - payment, rate, payment, months - 1)

(* What is left of a loan counts as repaid when it is within a thousandth of the *)
(* amount lent, or within a dollar                                               *)
Repaid(principal, left) == Abs(left) <= Max(MIL, Abs(principal) \div 1000)

(* `payment` a month amortizes the loan fully: it repays `principal`, at the     *)
(* annual rate over twelve, in amort_years * 12 months                           *)
FullyAmortizes(principal, annual_rate, amort_years, payment) ==
    Repaid(principal,
           BalanceAfter(principal, (annual_rate * 100) \div 12, payment, amort_years * 12))

(* C12: in every projection year the debt service is loan_amount *              *)
(* interest_rate within the interest-only period, and after it twelve times the *)
(* monthly payment that fully amortizes the loan amount at interest_rate / 12   *)
(* over amortization_years * 12 months.                                         *)
C12_DebtService ==
    Built =>
        \A y \in 1..years :
            LET row == pro_forma.pro_forma[y]
                loan_amount == pro_forma.inputs.derived.loan_amount
            IN  IF y <= deal.io_period_years
                THEN row.debt_service = round2(Frac(loan_amount, deal.interest_rate))
                ELSE FullyAmortizes(loan_amount, deal.interest_rate,
                                    deal.amortization_years, row.debt_service \div 12)

(* The months of the schedule of the built deal, and those after the            *)
(* interest-only period                                                          *)
ScheduleMonths == IF Built THEN 1..Len(pro_forma.amortization_monthly) ELSE {}
AmortizingMonths == {m \in ScheduleMonths : m > deal.io_period_years * 12}

(* C13: in the schedule of build_amortization_schedule the balance is the       *)
(* original principal at the end of every interest-only month; from the first   *)
(* amortizing month on it never increases from one month to the next and never  *)
(* falls below 0; and in every amortizing month the payment is the principal    *)
(* paid plus the interest, neither of them negative.  Every figure of a row is  *)
(* rounded to cents on its own, so the sum is compared to the cent.             *)
C13_ScheduleShape ==
    LET schedule == pro_forma.amortization_monthly
        principal == pro_forma.inputs.derived.loan_amount
    IN  /\ \A m \in ScheduleMonths \ AmortizingMonths :
               schedule[m].balance = round2(principal)
        /\ \A m \in AmortizingMonths :
               /\ schedule[m].balance >= 0
               /\ schedule[m].balance
                      <= (IF m = 1 THEN round2(principal) ELSE schedule[m - 1].balance)
               /\ schedule[m].principal >= 0
               /\ schedule[m].interest >= 0
               /\ Abs(schedule[m].payment
                       - (schedule[m].principal + schedule[m].interest)) <= CENT

----------------------------------------------------------------------------
(* Claims about the engine's calls on one deal, under Spec *)

(* Both runs of the simulator have returned *)
RanTwice == pc = "done"

(* run() returned its error result: {"error": ...} *)
IsError(result) == "error" \in DOMAIN result

(* run() returned a distribution *)
IsDistribution(result) == result # None /\ ~IsError(result)

C6_DealUnchanged == [][deal' = deal]_vars

(* Every call has been made on a deal whose fields differ from what the Monte *)
(* Carlo loop and the tables write into their copies                          *)
C6_Witness ==
    /\ RanTwice
    /\ deal.yearly_revenue_growth # <<>>
    /\ ~sensitivity.raised
    /\ IsDistribution(monte_carlo)
    /\ monte_carlo.failed_iterations = 0

(* C8: MonteCarloSimulator.run returns the error result (an error marker, no    *)
(* percentiles, probabilities or signal) exactly when fewer than 10 iterations  *)
(* are valid and the full distribution otherwise, whether the builder raised in *)
(* some iterations, in all of them or in none.                                  *)
C8_ErrorIffTooFewValid ==
    monte_carlo # None =>
        /\ IsError(monte_carlo) =>
               /\ DOMAIN monte_carlo = {"error"}
               /\ monte_carlo.error.valid < 10
               /\ monte_carlo.error.n_iterations = simulator.n_iterations
        /\ ~IsError(monte_carlo) =>
               /\ {"percentiles", "probabilities", "mc_signal"} \subseteq DOMAIN monte_carlo
               /\ monte_carlo.valid_iterations >= 10
               /\ monte_carlo.valid_iterations + monte_carlo.failed_iterations
                      = monte_carlo.n_iterations
               /\ monte_carlo.n_iterations = simulator.n_iterations

(* Twelve iterations of which some, but fewer than ten, were valid *)
C8_Witness ==
    /\ monte_carlo # None
    /\ simulator.n_iterations = 12
    /\ IsError(monte_carlo)
    /\ monte_carlo.error.valid \in 1..9

(* The first Monte Carlo run returned a distribution *)
Distributed == pc \in {"simulated", "rebuilt", "done"} /\ IsDistribution(monte_carlo)

(* C14 as stated: a run that reports more than 50% of its iterations above an  *)
(* IRR of 15% has the signal POSITIVE or MODERATE, never WARNING.               *)
C14_MostlyAboveFifteen ==
    (Distributed /\ monte_carlo.probabilities.irr_gt_15 > 500) =>
        monte_carlo.mc_signal \in {"POSITIVE", "MODERATE"}

(* C14 amended: a run that reports at least 70% of its iterations above 15% has *)
(* the signal POSITIVE; one that reports more than 50% has the signal POSITIVE  *)
(* or MODERATE when at least 70% are above 8%, and otherwise WARNING exactly    *)
(* when more than 20% of the iterations lose money.                             *)
C14_SignalFromShares ==
    LET p == monte_carlo.probabilities
    IN  /\ (Distributed /\ p.irr_gt_15 >= 700) => monte_carlo.mc_signal = "POSITIVE"
        /\ (Distributed /\ p.irr_gt_15 > 500) =>
               /\ p.irr_gt_8 >= 700 => monte_carlo.mc_signal \in {"POSITIVE", "MODERATE"}
               /\ p.irr_gt_8 < 700 =>
                      (monte_carlo.mc_signal = "WARNING" <=> p.irr_lt_0 > 200)
               /\ p.irr_gt_8 < 700 => monte_carlo.mc_signal \in {"WARNING", "NEUTRAL"}

(* A run with between 50% and 70% of its iterations above 15%, at least 70%     *)
(* above 8% and more than 20% at a loss, whose signal is MODERATE               *)
C14_Witness ==
    /\ Distributed
    /\ monte_carlo.probabilities.irr_gt_15 > 500
    /\ monte_carlo.probabilities.irr_gt_15 < 700
    /\ monte_carlo.probabilities.irr_gt_8 >= 700
    /\ monte_carlo.probabilities.irr_lt_0 > 200
    /\ monte_carlo.mc_signal = "MODERATE"

(* _build_sensitivity has returned the four tables *)
Tabulated ==
    pc = "tabulated" /\ ~sensitivity.raised /\ "exit_cap" \in DOMAIN sensitivity

(* A row of a table next to the deal with only the table's parameter changed by *)
(* the row's delta; `plain` tells that the row reports its multiple unguarded   *)
RowCase(row, delta, plain, changed) ==
    [ irr |-> row.irr, equity_multiple |-> row.equity_multiple, delta |-> delta,
      plain |-> plain, changed |-> changed ]

ExitCapCases ==
    [ k \in 1..Len(sensitivity.exit_cap) |->
        LET row == sensitivity.exit_cap[k]
            delta == row.exit_cap_rate - pro_forma.reversion.exit_cap_rate
        IN  RowCase(row, delta, TRUE, [deal EXCEPT !.exit_cap_rate_spread = @ + delta]) ]

InterestRateCases ==
    [ k \in 1..Len(sensitivity.interest_rate) |->
        RowCase(sensitivity.interest_rate[k], RateDeltas[k], FALSE,
                [deal EXCEPT !.interest_rate = @ + RateDeltas[k]]) ]

RentGrowthCases ==
    [ k \in 1..Len(sensitivity.rent_growth) |->
        RowCase(sensitivity.rent_growth[k], GrowthDeltas[k], FALSE,
                [deal EXCEPT !.revenue_growth_rate = @ + GrowthDeltas[k]]) ]

PurchasePriceCases ==
    [ k \in 1..Len(sensitivity.purchase_price) |->
        RowCase(sensitivity.purchase_price[k], PriceDeltas[k], FALSE,
                [deal EXCEPT !.purchase_price = @ + Frac(@, PriceDeltas[k])]) ]

(* Two reported values are the same, or both numbers one step of the report apart *)
SameReport(a, b, step) == a = b \/ (a # None /\ b # None /\ Abs(a[1] - b[1]) <= step)

(* The row reports the levered IRR and the equity multiple of the metrics m, to *)
(* the last digit reported: 0.01 percentage points and 0.01x                    *)
RowReports(c, m) ==
    /\ SameReport(c.irr, report_irr(m.levered_irr), 1)
    /\ SameReport(IF c.plain THEN Some(c.equity_multiple) ELSE c.equity_multiple,
                  IF c.plain THEN Some(round2_ratio(m.equity_multiple))
                  ELSE report_ratio(m.equity_multiple), 100)

RowsAreRebuilds(cases) ==
    \A k \in 1..Len(cases) :
        /\ LET pf == build_pro_forma(cases[k].changed)
           IN  ~pf.raised /\ RowReports(cases[k], pf.metrics)
        /\ cases[k].delta = 0 => RowReports(cases[k], pro_forma.metrics)

(* C19: every row of the exit-cap, interest-rate, rent-growth and purchase-    *)
(* price tables reports the levered IRR and the equity multiple that           *)
(* build_pro_forma returns for the deal with only that parameter changed by    *)
(* the row's delta, and the row of delta 0 reports those of the baseline.      *)
C19_RowsAreRebuilds ==
    Tabulated =>
        RowsAreRebuilds(ExitCapCases \o InterestRateCases \o RentGrowthCases
                        \o PurchasePriceCases)

(* The same for one table at a time *)
ExitCapRowsAreRebuilds == Tabulated => RowsAreRebuilds(ExitCapCases)
InterestRateRowsAreRebuilds == Tabulated => RowsAreRebuilds(InterestRateCases)
RentGrowthRowsAreRebuilds == Tabulated => RowsAreRebuilds(RentGrowthCases)
PurchasePriceRowsAreRebuilds == Tabulated => RowsAreRebuilds(PurchasePriceCases)

----------------------------------------------------------------------------
(* Claims about two threads, under SpecConc *)

(* C4: whatever the other thread does to the generator meanwhile, the job's     *)
(* Monte Carlo result equals the result of the same run executed alone.         *)
C4_IndependentOfOtherThreads ==
    pc = "complete" => monte_carlo = alone

----------------------------------------------------------------------------
(* Claims about the recommendation, under SpecAnalysis *)

(* _build_recommendation has returned *)
Scored == pc = "generating_excel"

(* A signal that was supplied and carries no error marker *)
Supplied(x) == x # None /\ "error" \notin DOMAIN x

(* A signal that is missing or carries an error marker *)
Missing(x) == x = None \/ "error" \in DOMAIN x

(* An error marker whose message is empty *)
SilentMarker(x) == x # None /\ "error" \in DOMAIN x /\ x.error = ""

ExternalSignals == <<ml_valuation, lease_analysis, rent_prediction, monte_carlo>>

NoSilentMarker == \A i \in 1..Len(ExternalSignals) : ~SilentMarker(ExternalSignals[i])

(* The contributions of the rule table *)
IrrPoints(m) ==
    IF m.levered_irr = None THEN 0
    ELSE IF m.levered_irr[1] >= 1500 THEN 2
    ELSE IF m.levered_irr[1] >= 1200 THEN 1
    ELSE IF m.levered_irr[1] >= 800 THEN 0
    ELSE -2

DscrPoints(m) == IF m.dscr_yr1 < BPS THEN -2 ELSE IF m.dscr_yr1 < 12500 THEN -1 ELSE 0

ValuationPoints(x) ==
    IF ~Supplied(x) THEN 0
    ELSE IF x.assessment = "UNDERVALUED" THEN 1
    ELSE IF x.assessment = "OVERVALUED" THEN -1
    ELSE 0

RiskFlagCount(x) == Len(x.risk_flags)
MismatchFlagCount(x) == Len(x.input_comparison.flags)

(* One point for more than three flags of both kinds together *)
LeasePointsByCount(x) ==
    IF ~Supplied(x) THEN 0
    ELSE IF RiskFlagCount(x) + MismatchFlagCount(x) > 3 THEN -1
    ELSE 0

(* One point for any rent-mismatch flag and one for more than three risk flags *)
LeasePoints(x) ==
    IF ~Supplied(x) THEN 0
    ELSE (IF MismatchFlagCount(x) > 0 THEN -1 ELSE 0)
         + (IF RiskFlagCount(x) > 3 THEN -1 ELSE 0)

ForecastPoints(x) ==
    IF ~Supplied(x) THEN 0
    ELSE IF x.avg_predicted_growth > 400 THEN 1
    ELSE IF x.avg_predicted_growth < 100 THEN -1
    ELSE 0

MonteCarloPoints(x) ==
    IF ~Supplied(x) THEN 0
    ELSE IF x.mc_signal = "POSITIVE" THEN 1
    ELSE IF x.mc_signal = "WARNING" THEN -1
    ELSE 0

PointsBesidesLease ==
    IrrPoints(pro_forma.metrics) + DscrPoints(pro_forma.metrics)
    + ValuationPoints(ml_valuation) + ForecastPoints(rent_prediction)
    + MonteCarloPoints(monte_carlo)

LabelOf(score) ==
    IF score >= 2 THEN "STRONG BUY"
    ELSE IF score = 1 THEN "BUY"
    ELSE IF score = 0 THEN "HOLD / CONDITIONAL"
    ELSE "PASS"

(* C16: the recommendation label is a function of the composite score only:    *)
(* STRONG BUY for a score of 2 or more, BUY for 1, HOLD / CONDITIONAL for 0,   *)
(* PASS for a negative score.                                                  *)
C16_LabelFromScore ==
    Scored => recommendation.recommendation = LabelOf(recommendation.score)

(* A score of 0 reached by gains and losses that cancel, labelled HOLD / CONDITIONAL *)
C16_Witness ==
    /\ Scored
    /\ recommendation.score = 0
    /\ recommendation.recommendation = "HOLD / CONDITIONAL"
    /\ IrrPoints(pro_forma.metrics) = 2
    /\ DscrPoints(pro_forma.metrics) = -2
    /\ Len(recommendation.signals) >= 4

(* The sources under which a signal's entries are listed *)
SourcesOf ==
    << {"ML Valuation"}, {"Lease Analysis", "Lease Risk"}, {"Rent Forecast"}, {"Monte Carlo"} >>

(* The signal list has no entry from any of the sources *)
NoEntryFrom(sources) ==
    \A k \in 1..Len(recommendation.signals) : recommendation.signals[k][1] \notin sources

(* C17: a missing or error-marked external signal (valuation, lease analysis,  *)
(* rent forecast or Monte Carlo result) is treated as absent: it adds nothing  *)
(* to the score and no entry to the signal list, and the contributions of the  *)
(* other signals are what they are without it.                                 *)
C17_MissingIsAbsent ==
    Scored =>
        /\ \A i \in 1..Len(ExternalSignals) :
               Missing(ExternalSignals[i]) => NoEntryFrom(SourcesOf[i])
        /\ recommendation.score = PointsBesidesLease + LeasePoints(lease_analysis)

(* The same, for markers that carry a message *)
MarkedWithMessageIsAbsent == NoSilentMarker => C17_MissingIsAbsent

(* The place of an entry's source in the order of evaluation *)
PlaceOf(source) ==
    CASE source = "IRR" -> 1
      [] source = "DSCR" -> 2
      [] source = "ML Valuation" -> 3
      [] source \in {"Lease Analysis", "Lease Risk"} -> 4
      [] source = "Rent Forecast" -> 5
      [] source = "Monte Carlo" -> 6
      [] OTHER -> 0

(* C18: the signal list is in the order of evaluation (IRR, DSCR, valuation,   *)
(* lease analysis, rent forecast, Monte Carlo): along the list the place of    *)
(* the entries' sources never goes back, so the entries of one source are      *)
(* contiguous and every two entries keep the order of their sources.           *)
C18_SignalsInOrder ==
    Scored =>
        LET signals == recommendation.signals
        IN  /\ \A k \in 1..Len(signals) : PlaceOf(signals[k][1]) > 0
            /\ \A j, k \in 1..Len(signals) :
                   j < k => PlaceOf(signals[j][1]) <= PlaceOf(signals[k][1])

(* A list with entries from all six sources, two of them from the lease analysis *)
C18_Witness ==
    /\ Scored
    /\ Len(recommendation.signals) = 7
    /\ {PlaceOf(recommendation.signals[k][1]) : k \in 1..7} = 1..6

----------------------------------------------------------------------------
(* Claims about the iterations of a Monte Carlo run, under SpecPerturb *)

(* An iteration has just handed its deal to the builder *)
Handed == run # None /\ run.i > 0 /\ run.draws = 0

(* The deal of the latest iteration *)
SimDeal == run.heap[run.sim_deal]

(* base * (1 + shock) for the two ends of a relative shock, floored at 0 *)
RelativeEnd(base, shock) == Max(0, base + Frac(base, shock))

Between(x, a, b) == Min(a, b) <= x /\ x <= Max(a, b)

(* C20: in every iteration the deal handed to the builder has an occupancy in  *)
(* [0.60, 0.99], non-negative revenue growth, expense growth and exit spread,  *)
(* and no yearly growth rates; and each perturbed value lies where a shock of  *)
(* the base deal's own value can put it, however many iterations went before.  *)
C20_PerturbedFromBase ==
    Handed =>
        /\ 6000 <= SimDeal.occupancy /\ SimDeal.occupancy <= 9900
        /\ SimDeal.revenue_growth_rate >= 0
        /\ SimDeal.expense_growth_rate >= 0
        /\ SimDeal.exit_cap_rate_spread >= 0
        /\ SimDeal.yearly_revenue_growth = <<>>
        /\ Between(SimDeal.revenue_growth_rate,
                   RelativeEnd(deal.revenue_growth_rate, -3000),
                   RelativeEnd(deal.revenue_growth_rate, 3000))
        /\ Between(SimDeal.occupancy,
                   Max(6000, Min(9900, deal.occupancy - 300)),
                   Max(6000, Min(9900, deal.occupancy + 300)))
        /\ Between(SimDeal.exit_cap_rate_spread,
                   Max(0, deal.exit_cap_rate_spread - 50),
                   Max(0, deal.exit_cap_rate_spread + 50))
        /\ Between(SimDeal.expense_growth_rate,
                   RelativeEnd(deal.expense_growth_rate, -2500),
                   RelativeEnd(deal.expense_growth_rate, 2500))

(* A late iteration on a deal with predicted rates in which the occupancy hit *)
(* its ceiling and the exit spread its floor                                  *)
C20_Witness ==
    /\ Handed
    /\ run.i >= 3
    /\ deal.yearly_revenue_growth # <<>>
    /\ SimDeal.yearly_revenue_growth = <<>>
    /\ deal.occupancy = 9800 /\ SimDeal.occupancy = 9900
    /\ deal.exit_cap_rate_spread = 20 /\ SimDeal.exit_cap_rate_spread = 0
    /\ SimDeal.revenue_growth_rate # deal.revenue_growth_rate

(* The levered IRR of a build counts: it is not null and lies in [-100%, +200%] *)
ValidIrr(result) ==
    /\ ~result.raised
    /\ result.metrics.levered_irr # None
    /\ -BPS <= result.metrics.levered_irr[1]
    /\ result.metrics.levered_irr[1] <= 2 * BPS

(* The run has returned a distribution *)
RunDistributed == pc = "complete" /\ IsDistribution(monte_carlo)

(* How many values of the valid sample lie above (below) a threshold *)
SampleAbove(threshold) == Cardinality({i \in 1..Len(run.irrs) : run.irrs[i] > threshold})

SampleBelow(threshold) == Cardinality({i \in 1..Len(run.irrs) : run.irrs[i] < threshold})

(* The result of a run against the sample its loop collected *)
ResultOverValidSample ==
    /\ run # None => run.i = Len(run.irrs) + run.failed
    /\ RunDistributed =>
           /\ monte_carlo.n_iterations = simulator.n_iterations
           /\ monte_carlo.valid_iterations + monte_carlo.failed_iterations
                  = monte_carlo.n_iterations
           /\ monte_carlo.valid_iterations = Len(run.irrs)
           /\ monte_carlo.failed_iterations = run.failed
           /\ monte_carlo.min_irr = round1_pct(np_min(run.irrs))
           /\ monte_carlo.max_irr = round1_pct(np_max(run.irrs))
           /\ monte_carlo.mean_irr
                  = round_div(sum_from(run.irrs, 1), Len(run.irrs) * 10) * 10
           /\ monte_carlo.percentiles.P50 >= monte_carlo.min_irr
           /\ monte_carlo.percentiles.P50 <= monte_carlo.max_irr
           /\ monte_carlo.probabilities.irr_gt_8
                  = round_div(SampleAbove(800) * 1000, Len(run.irrs))
           /\ monte_carlo.probabilities.irr_gt_15
                  = round_div(SampleAbove(1500) * 1000, Len(run.irrs))
           /\ monte_carlo.probabilities.irr_lt_0
                  = round_div(SampleBelow(0) * 1000, Len(run.irrs))
           /\ Len(monte_carlo.histogram_counts) = 20
           /\ sum_from(monte_carlo.histogram_counts, 1) = monte_carlo.valid_iterations

(* One iteration ends: its IRR joins the sample exactly when it is valid, and *)
(* counts as failed otherwise                                                 *)
IterationCounted ==
    (pc = "monte_carlo" /\ run'.i = run.i + 1) =>
        LET result == build_pro_forma(run'.heap[run'.sim_deal])
        IN  IF ValidIrr(result)
            THEN /\ run'.irrs = Append(run.irrs, result.metrics.levered_irr[1])
                 /\ run'.failed = run.failed
            ELSE /\ run'.irrs = run.irrs
                 /\ run'.failed = run.failed + 1

(* C21: in every successful Monte Carlo result valid_iterations plus           *)
(* failed_iterations equals n_iterations; an iteration is valid exactly when   *)
(* its levered IRR is not null and lies in [-100%, +200%], the ends included;  *)
(* the statistics are those of the valid sample; and the histogram has twenty  *)
(* buckets whose counts add up to valid_iterations.                            *)
C21_ValidSampleOnly == [](ResultOverValidSample) /\ [][IterationCounted]_vars

(* A run of twelve iterations that returned a distribution over ten or eleven  *)
(* valid ones, the others having gone over +200%                               *)
C21_Witness ==
    /\ RunDistributed
    /\ monte_carlo.n_iterations = 12
    /\ monte_carlo.failed_iterations > 0
    /\ monte_carlo.valid_iterations < 12
    /\ monte_carlo.max_irr > 19900

----------------------------------------------------------------------------
(* Claims about the projection, under SpecProject *)

(* The latest build returned a pro forma *)
Projected == pro_forma # None /\ ~pro_forma.raised

(* Both builds returned a pro forma *)
ProjectedTwice ==
    /\ pc = "rebuilt"
    /\ ~first_pro_forma.raised
    /\ ~pro_forma.raised

(* The two deals differ in nothing but the named fields *)
DifferOnlyIn(a, b, fields) ==
    /\ a # b
    /\ \A f \in DOMAIN a : f \notin fields => a[f] = b[f]

(* The occupancy column of a pro forma *)
OccupancyColumn(result) == [yr \in 1..years |-> result.pro_forma[yr].occupancy]

(* The level the occupancy is taken to: min(0.95, occupancy + 0.03) *)
StabilizedOccupancy(d) == Min(9500, d.occupancy + 300)

(* The deal's occupancy is being improved *)
Improving(result) ==
    /\ result.inputs.derived.total_capex > 0
    /\ result.inputs.deal.occupancy < 9500

(* C22: with capex and an occupancy below 0.95, year 1 is at the midpoint of   *)
(* the input occupancy and min(0.95, occupancy + 0.03) and years 2 to 10 are   *)
(* at that level; otherwise every year is at the input occupancy.  Occupancy   *)
(* never falls from one year to the next, and is the same whatever the hold    *)
(* period, and with it the rent ramp's length.                                 *)
C22_OccupancyRamp ==
    /\ Projected =>
           LET d == pro_forma.inputs.deal
               occ == OccupancyColumn(pro_forma)
           IN  /\ Improving(pro_forma) =>
                      /\ 2 * occ[1] = d.occupancy + StabilizedOccupancy(d)
                      /\ \A yr \in 2..years : occ[yr] = StabilizedOccupancy(d)
               /\ ~Improving(pro_forma) =>
                      \A yr \in 1..years : occ[yr] = d.occupancy
               /\ \A yr \in 2..years : occ[yr] >= occ[yr - 1]
    /\ (/\ ProjectedTwice
        /\ DifferOnlyIn(first_pro_forma.inputs.deal, pro_forma.inputs.deal,
                        {"hold_period_years"})) =>
           OccupancyColumn(pro_forma) = OccupancyColumn(first_pro_forma)

(* A deal at 0.94 with capex, built for a hold of seven years and of one year: *)
(* 0.945 in year 1 and 0.95 after it, both times                               *)
C22_Witness ==
    /\ ProjectedTwice
    /\ Improving(pro_forma)
    /\ first_pro_forma.inputs.deal.hold_period_years = 7
    /\ pro_forma.inputs.deal.hold_period_years = 1
    /\ OccupancyColumn(pro_forma)
           = <<9450, 9500, 9500, 9500, 9500, 9500, 9500, 9500, 9500, 9500>>
    /\ OccupancyColumn(first_pro_forma) = OccupancyColumn(pro_forma)

(* The expense lines of a row that the expense growth rate drives *)
GrownLines(row) ==
    <<row.property_tax, row.insurance, row.utilities, row.repairs_maintenance,
      row.general_admin, row.other_expenses, row.replacement_reserves>>

(* value * (1 + expense_growth_rate)^(y - 1) *)
CompoundedTo(value, d, y) == Scale(value, power(PPM, d.expense_growth_rate, y - 1))

(* Equal to the cent, the rounding of the two sides apart *)
ToTheCent(a, b) == a - b <= 2 * CENT /\ b - a <= 2 * CENT

(* Each of the lines compounds from its year-1 value at the expense growth rate *)
LinesCompound(result, lines(_)) ==
    \A y \in 1..years :
        \A k \in 1..Len(lines(result.pro_forma[1])) :
            ToTheCent(lines(result.pro_forma[y])[k],
                      CompoundedTo(lines(result.pro_forma[1])[k], result.inputs.deal, y))

(* The two deals differ in their revenue growth and in nothing else *)
OnlyRevenueGrowthDiffers ==
    /\ ProjectedTwice
    /\ \/ DifferOnlyIn(first_pro_forma.inputs.deal, pro_forma.inputs.deal,
                       {"yearly_revenue_growth"})
       \/ DifferOnlyIn(first_pro_forma.inputs.deal, pro_forma.inputs.deal,
                       {"revenue_growth_rate"})

(* C23 as stated: every expense line of year y, the management fee among them, *)
(* is its year-1 value times (1 + expense_growth_rate)^(y-1), and two deals    *)
(* that differ only in their revenue growth have the same expense lines and    *)
(* the same total expenses in every year.                                      *)
C23_AllLinesCompound ==
    /\ Projected => LinesCompound(pro_forma, ExpenseLines)
    /\ OnlyRevenueGrowthDiffers =>
           \A y \in 1..years :
               /\ ExpenseLines(pro_forma.pro_forma[y])
                      = ExpenseLines(first_pro_forma.pro_forma[y])
               /\ pro_forma.pro_forma[y].total_expenses
                      = first_pro_forma.pro_forma[y].total_expenses

(* C23, amended: every expense line but the management fee is its year-1 value *)
(* times (1 + expense_growth_rate)^(y-1), and is the same for two deals that   *)
(* differ only in their revenue growth; the management fee is the year's       *)
(* effective gross income times management_fee_pct, and total expenses differ  *)
(* between such deals by the difference of their management fees.              *)
C23_LinesButFeeCompound ==
    /\ Projected =>
           /\ LinesCompound(pro_forma, GrownLines)
           /\ \A y \in 1..years :
                  ToTheCent(pro_forma.pro_forma[y].management_fee,
                            Frac(pro_forma.pro_forma[y].effective_gross_income,
                                 pro_forma.inputs.deal.management_fee_pct))
    /\ OnlyRevenueGrowthDiffers =>
           \A y \in 1..years :
               /\ GrownLines(pro_forma.pro_forma[y])
                      = GrownLines(first_pro_forma.pro_forma[y])
               /\ ToTheCent(pro_forma.pro_forma[y].total_expenses
                                - pro_forma.pro_forma[y].management_fee,
                            first_pro_forma.pro_forma[y].total_expenses
                                - first_pro_forma.pro_forma[y].management_fee)

(* A deal whose expenses do not grow, built with a flat revenue growth and     *)
(* with predicted rates: the same property tax in year 10 as in year 1, both   *)
(* times, and a different management fee                                       *)
C23_Witness ==
    /\ OnlyRevenueGrowthDiffers
    /\ pro_forma.inputs.deal.expense_growth_rate = 0
    /\ pro_forma.pro_forma[10].property_tax = pro_forma.pro_forma[1].property_tax
    /\ pro_forma.pro_forma[10].property_tax > 0
    /\ pro_forma.pro_forma[10].property_tax = first_pro_forma.pro_forma[10].property_tax
    /\ pro_forma.pro_forma[10].management_fee
           # first_pro_forma.pro_forma[10].management_fee

(* The growth resolved for the year after the projection: the eleventh         *)
(* predicted rate when there is one, else the flat rate; in basis points       *)
GrowthAfterProjection(d) ==
    IF Len(d.yearly_revenue_growth) > years
    THEN d.yearly_revenue_growth[years + 1] * 10
    ELSE d.revenue_growth_rate

(* The reversion of a pro forma is the one the exit rules give *)
ReversionByTheRules(result) ==
    LET d == result.inputs.deal
        r == result.reversion
        exit == r.exit_year
        derived_cap == result.inputs.derived.exit_cap_rate
    IN  /\ exit = Min(d.hold_period_years, years)
        /\ exit < years =>
               /\ exit + 1 \in 1..years
               /\ r.forward_noi = result.annual_nois[exit + 1]
        /\ exit = years =>
               ToTheCent(r.forward_noi,
                         result.annual_nois[years]
                             + Frac(result.annual_nois[years], GrowthAfterProjection(d)))
        /\ r.exit_cap_rate > 0
        /\ r.exit_cap_rate = (IF derived_cap <= 0 THEN 600 ELSE derived_cap)
        /\ ToTheCent(Frac(r.sale_price, r.exit_cap_rate), r.forward_noi)

(* C24: the exit year is min(hold_period_years, 10); the forward NOI is the    *)
(* NOI of year exit + 1 when exit < 10, and the year-10 NOI grown by the rate  *)
(* resolved for year 11 when exit = 10; the sale price is the forward NOI      *)
(* divided by an exit cap rate that is strictly positive, 0.06 when the        *)
(* derived one is not.                                                         *)
C24_Reversion == Projected => ReversionByTheRules(pro_forma)

(* The same for the hold periods from 0 up *)
ReversionForHoldsFromZero ==
    (Projected /\ pro_forma.inputs.deal.hold_period_years >= 0) =>
        ReversionByTheRules(pro_forma)

(* A hold of ten years with an eleventh predicted rate, and a negative derived *)
(* exit cap rate replaced by 0.06                                              *)
ReversionCasesReached ==
    /\ ProjectedTwice
    /\ first_pro_forma.reversion.exit_year = years
    /\ Len(first_pro_forma.inputs.deal.yearly_revenue_growth) > years
    /\ pro_forma.reversion.exit_year = 3

(* Principal was due in one of the schedule's months up to month `last` *)
PrincipalScheduledBy(schedule, last) ==
    \E k \in 1..Min(last, Len(schedule)) : schedule[k].principal > 0

(* The loan balance of the reversion is the one the schedule gives *)
BalanceFromSchedule(result) ==
    LET schedule == result.amortization_monthly
        month == result.reversion.exit_year * 12
        loan_amount == round2(result.inputs.derived.loan_amount)
    IN  /\ schedule # <<>> =>
               /\ month \in 1..Len(schedule) =>
                      result.reversion.loan_balance = schedule[month].balance
               /\ PrincipalScheduledBy(schedule, month) =>
                      result.reversion.loan_balance < loan_amount
        /\ schedule = <<>> => result.reversion.loan_balance = loan_amount

(* C25: the reversion's loan balance is the schedule's balance at month        *)
(* exit_year * 12 whenever there is a schedule, and the original loan amount   *)
(* only when there is none; a loan on which principal was due before the sale  *)
(* leaves less than the original amount at the exit, for every hold period,    *)
(* those longer than the loan's term included.  Stated for the hold periods of *)
(* a year and more.                                                            *)
C25_ExitBalance ==
    (Projected /\ pro_forma.inputs.deal.hold_period_years >= 1) =>
        BalanceFromSchedule(pro_forma)

(* The same for the sales that take place within the loan's term *)
ExitBalanceWithinTerm ==
    (/\ Projected
     /\ pro_forma.inputs.deal.hold_period_years >= 1
     /\ pro_forma.reversion.exit_year <= pro_forma.inputs.deal.loan_term_years) =>
        BalanceFromSchedule(pro_forma)

(* A sale in year 3 of a loan with a five-year term and principal due monthly *)
ExitBalanceCasesReached ==
    /\ Projected
    /\ pro_forma.inputs.deal.loan_term_years = 5
    /\ pro_forma.reversion.exit_year = 3
    /\ PrincipalScheduledBy(pro_forma.amortization_monthly, 36)
    /\ pro_forma.reversion.loan_balance < pro_forma.inputs.derived.loan_amount

(* One IRR cash-flow vector: the investment, the flows of the years before the *)
(* exit, and the exit year's flow with the proceeds of the sale                *)
VectorByTheRules(cfs, invested, flows, proceeds, exit) ==
    /\ Len(cfs) = exit + 1
    /\ exit >= 1
    /\ cfs[1] = -invested
    /\ \A yr \in 1..(exit - 1) : cfs[yr + 1] = flows[yr]
    /\ ToTheCent(cfs[exit + 1], flows[exit] + proceeds)

(* The three vectors of a pro forma *)
VectorsByTheRules(result) ==
    LET r == result.reversion
        equity == round2(result.inputs.derived.equity_required)
        total_cost == round2(result.inputs.derived.total_project_cost)
    IN  /\ VectorByTheRules(result.levered_cash_flows, equity, result.annual_btcfs,
                            r.net_sale_proceeds, r.exit_year)
        /\ VectorByTheRules(result.unlevered_cash_flows, total_cost, result.annual_nois,
                            r.sale_price - r.sale_costs, r.exit_year)
        /\ VectorByTheRules(result.after_tax_cash_flows, equity, result.annual_atcfs,
                            r.net_sale_proceeds_after_tax, r.exit_year)

(* C26: for every hold period the engine accepts, 0, 1 and those above 10      *)
(* included, each IRR cash-flow vector has exit_year + 1 entries: the negative *)
(* investment, the flows of years 1 to exit - 1, and the exit year's flow plus *)
(* the sale proceeds; no later year contributes.  Stated for the hold periods  *)
(* from 0 up.                                                                  *)
C26_CashFlowVectors ==
    (Projected /\ pro_forma.inputs.deal.hold_period_years >= 0) =>
        LET exit == pro_forma.reversion.exit_year
        IN  IF exit >= 1 THEN VectorsByTheRules(pro_forma)
            ELSE /\ Len(pro_forma.levered_cash_flows) = exit + 1
                 /\ Len(pro_forma.unlevered_cash_flows) = exit + 1
                 /\ Len(pro_forma.after_tax_cash_flows) = exit + 1

(* The same for the hold periods of a year and more *)
VectorsForHoldsFromOne ==
    (Projected /\ pro_forma.inputs.deal.hold_period_years >= 1) =>
        VectorsByTheRules(pro_forma)

(* Holds of one year and of twelve *)
VectorCasesReached ==
    /\ Projected
    /\ pro_forma.inputs.deal.hold_period_years \in {1, 12}
    /\ Len(pro_forma.levered_cash_flows) \in {2, 11}

(* Equal but for the last digit *)
ToTheLastDigit(a, b) == a - b <= 1 /\ b - a <= 1

(* The stabilized metrics of a pro forma are those of the NOI of year `yr` *)
StabilizedFrom(result, yr) ==
    LET noi == result.annual_nois[yr]
        debt_service == result.pro_forma[years].debt_service
        yoc == calc_yield_on_cost(noi, result.inputs.derived.total_project_cost)
        dscr == calc_dscr(noi, debt_service)
    IN  /\ yoc.ok /\ ToTheLastDigit(result.metrics.stabilized_yoc, yoc.v)
        /\ dscr.ok /\ ToTheLastDigit(result.metrics.stabilized_dscr, dscr.v)

(* C27: the stabilized DSCR and the stabilized yield on cost are computed from *)
(* the NOI of year 3; for a hold period below 3 from the NOI of the exit year, *)
(* never from a year after the hold period's end.  Stated for the hold periods *)
(* of a year and more.                                                         *)
C27_StabilizedYear ==
    (Projected /\ pro_forma.inputs.deal.hold_period_years >= 1) =>
        StabilizedFrom(pro_forma, Min(3, pro_forma.reversion.exit_year))

(* What the engine reports: the NOI of year 3 whatever the hold period *)
StabilizedFromYearThree == Projected => StabilizedFrom(pro_forma, 3)

(* A two-year hold whose year-3 NOI is not that of its exit year *)
StabilizedCasesReached ==
    /\ Projected
    /\ pro_forma.inputs.deal.hold_period_years = 2
    /\ pro_forma.annual_nois[3] > pro_forma.annual_nois[2] + 100 * CENT
    /\ pro_forma.metrics.stabilized_yoc > pro_forma.metrics.yield_on_cost

----------------------------------------------------------------------------
(* Claims about the jobs of the web application, under SpecJob *)

(* The statuses of a job that is being worked on, in the order of the pipeline *)
StageOrder ==
    << "pending", "researching", "predicting_rents", "backtesting", "modeling",
       "ml_valuation", "analyzing_lease", "sensitivity", "monte_carlo",
       "generating_excel", "generating_word", "generating_pdf" >>

Rank(stage) == CHOOSE i \in 1..Len(StageOrder) : StageOrder[i] = stage

Terminal == {"complete", "error"}

(* analyze() has made the job *)
Created(job_id) == DOMAIN jobs # {} /\ job_id \in DOMAIN jobs

Finished(job_id) == Created(job_id) /\ jobs[job_id].status \in Terminal

(* What a complete job holds *)
CompleteFields == {"results", "recommendation", "excel_path", "word_path", "pdf_path"}

(* Every job is in a status of the pipeline or a terminal one, and a complete *)
(* job, as stored and as status() reports it, holds its results               *)
CompleteHasResults ==
    /\ \A job_id \in JobIds :
           Created(job_id) =>
               /\ jobs[job_id].status \in Terminal
                      \/ \E i \in 1..Len(StageOrder) : StageOrder[i] = jobs[job_id].status
               /\ jobs[job_id].status = "complete" =>
                      CompleteFields \subseteq DOMAIN jobs[job_id]
    /\ (response # None /\ "status" \in DOMAIN response /\ response.status = "complete") =>
           \E job_id \in JobIds :
               /\ Finished(job_id)
               /\ CompleteFields \subseteq DOMAIN jobs[job_id]

(* In one step a job stays, and its status stays or moves: never from a       *)
(* terminal status, and from a stage only to a later stage or a terminal one  *)
StatusForward ==
    \A job_id \in JobIds :
        Created(job_id) =>
            /\ job_id \in DOMAIN jobs'
            /\ jobs'[job_id].status # jobs[job_id].status =>
                   /\ jobs[job_id].status \notin Terminal
                   /\ \/ jobs'[job_id].status \in Terminal
                      \/ Rank(jobs'[job_id].status) > Rank(jobs[job_id].status)

(* C28: every job that analyze creates reaches the status complete or error,  *)
(* each stage of the pipeline returning or raising; until then its status     *)
(* only moves forward in the order of the stages; once complete or error its  *)
(* status never changes; and a job seen as complete holds its results, its    *)
(* recommendation and its file paths.                                         *)
C28_JobsFinish ==
    /\ [](CompleteHasResults)
    /\ [][StatusForward]_vars
    /\ \A job_id \in JobIds : Created(job_id) ~> Finished(job_id)

(* Two jobs, one complete after all its optional stages and one ended by an   *)
(* exception, and a status reply of complete                                  *)
C28_Witness ==
    /\ response # None
    /\ \A job_id \in JobIds : Finished(job_id)
    /\ \E job_id \in JobIds :
           jobs[job_id].status = "complete" /\ jobs[job_id].deal.enable_ml_valuation
    /\ \E job_id \in JobIds : jobs[job_id].status = "error"
    /\ response # None /\ "status" \in DOMAIN response /\ response.status = "complete"

----------------------------------------------------------------------------
(* Claims about deals without debt service, under SpecAnalysis *)

(* The deal of the pro forma pays no debt service: no loan, or no interest *)
NoDebtService(result) ==
    \/ result.inputs.derived.loan_amount <= 0
    \/ result.inputs.deal.interest_rate <= 0

(* The points of every signal but the DSCR *)
PointsBesidesDscr ==
    IrrPoints(pro_forma.metrics) + ValuationPoints(ml_valuation)
    + LeasePoints(lease_analysis) + ForecastPoints(rent_prediction)
    + MonteCarloPoints(monte_carlo)

(* C29: a deal without debt service, its loan amount or its interest rate     *)
(* being 0, is reported with dscr_yr1 = 0, and the recommendation scores this *)
(* like any DSCR below 1.0: the signals hold the DSCR WARNING and the score   *)
(* is 2 below the sum of the other signals.                                   *)
C29_NoDebtIsPenalized ==
    (Scored /\ NoDebtService(pro_forma)) =>
        /\ pro_forma.metrics.dscr_yr1 = 0
        /\ \E i \in 1..Len(recommendation.signals) :
               recommendation.signals[i] = <<"DSCR", "WARNING">>
        /\ NoSilentMarker => recommendation.score = PointsBesidesDscr - 2

(* A deal bought without a loan and one whose loan bears no interest, the     *)
(* first with a levered IRR between 12% and 15%: a BUY signal and a score of  *)
(* -1 from the IRR and the DSCR alone                                         *)
C29_Witness ==
    /\ Scored
    /\ NoDebtService(pro_forma)
    /\ pro_forma.inputs.derived.loan_amount = 0
    /\ ml_valuation = None /\ lease_analysis = None
    /\ rent_prediction = None /\ Missing(monte_carlo) /\ NoSilentMarker
    /\ IrrPoints(pro_forma.metrics) = 1
    /\ recommendation.score = -1

(* The same for a loan without interest *)
NoInterestReached ==
    /\ Scored
    /\ pro_forma.inputs.derived.loan_amount > 0
    /\ pro_forma.inputs.deal.interest_rate = 0
    /\ pro_forma.metrics.dscr_yr1 = 0

----------------------------------------------------------------------------
(* Claims about the sensitivity tables' rows, under SpecProject *)

(* Each row of the interest-rate table next to the deal with the rate set to    *)
(* the value the row reports                                                    *)
LabelledRateCases ==
    [ k \in 1..Len(sensitivity.interest_rate) |->
        RowCase(sensitivity.interest_rate[k], RateDeltas[k], FALSE,
                [deal EXCEPT !.interest_rate = sensitivity.interest_rate[k].interest_rate]) ]

(* Each row of the rent-growth table next to the deal with the flat growth set  *)
(* to the value the row reports                                                 *)
LabelledGrowthCases ==
    [ k \in 1..Len(sensitivity.rent_growth) |->
        RowCase(sensitivity.rent_growth[k], GrowthDeltas[k], FALSE,
                [deal EXCEPT !.revenue_growth_rate = sensitivity.rent_growth[k].rent_growth,
                             !.yearly_revenue_growth = <<>>]) ]

(* The value reported is not below the floor: 1% for the rate, 0 for the growth *)
RateNotBelowFloor(c) == c.changed.interest_rate >= 100
GrowthNotBelowFloor(c) == c.changed.revenue_growth_rate >= 0

(* The rows of the two tables, all of them or those not below the floors *)
LabelledCases(floors_too) ==
    IF floors_too THEN LabelledRateCases \o LabelledGrowthCases
    ELSE SelectSeq(LabelledRateCases, RateNotBelowFloor)
         \o SelectSeq(LabelledGrowthCases, GrowthNotBelowFloor)

(* The cases report the IRR and the multiple of a build with the parameter at   *)
(* the reported value                                                           *)
ReportedIsApplied(cases) ==
    \A k \in 1..Len(cases) :
        LET pf == build_pro_forma(cases[k].changed)
        IN  ~pf.raised /\ RowReports(cases[k], pf.metrics)

(* Every table has one row for each of its deltas *)
OneRowPerDelta ==
    /\ Len(sensitivity.exit_cap) = Len(ExitCapIncrements)
    /\ Len(sensitivity.interest_rate) = Len(RateDeltas)
    /\ Len(sensitivity.rent_growth) = Len(GrowthDeltas)
    /\ Len(sensitivity.purchase_price) = Len(PriceDeltas)

(* C30: in every row of the interest-rate and rent-growth tables the value    *)
(* reported for the parameter is the value the row's rebuild was made with,   *)
(* for every base value and every delta, those that take the parameter to or  *)
(* below its floor included; and every generator returns one row per delta.   *)
C30_ReportedIsApplied ==
    Tabulated => (ReportedIsApplied(LabelledCases(TRUE)) /\ OneRowPerDelta)

(* The same for the rows whose reported value is not below the floor, and for  *)
(* the three generators that rebuild the deal                                  *)
ReportedIsAppliedAboveFloor ==
    Tabulated =>
        /\ ReportedIsApplied(LabelledCases(FALSE))
        /\ Len(sensitivity.interest_rate) = Len(RateDeltas)
        /\ Len(sensitivity.rent_growth) = Len(GrowthDeltas)
        /\ Len(sensitivity.purchase_price) = Len(PriceDeltas)

(* Tables of a deal at 2% interest and 1% growth: rows reported at 0.5% and   *)
(* at -1%                                                                      *)
FloorRowsReached ==
    /\ Tabulated
    /\ sensitivity.interest_rate[1].interest_rate = 50
    /\ sensitivity.rent_growth[1].rent_growth = -100

(* An exit-cap table with fewer rows than deltas *)
ShortExitCapTableReached ==
    /\ Tabulated
    /\ Len(sensitivity.exit_cap) < Len(ExitCapIncrements)

====
